---- MODULE Spec2Model ----
(***************************************************************************)
(* A model of the FCM multi-credential receiver: the Listener Pool         *)
(* (src/src/workers/listener_pool.rs), the per-credential Worker loop      *)
(* (src/src/workers/fcm_worker.rs), the payload pipeline with the Dedup    *)
(* Cache (src/src/workers/dedup.rs), the message-log store operations      *)
(* (src/src/db/repository.rs) and the Webhook sender                       *)
(* (src/src/workers/webhook.rs).                                           *)
(*                                                                         *)
(* Every await point of the code that releases a lock or yields to the     *)
(* scheduler separates two actions; the code between two await points is   *)
(* one action.                                                             *)
(***************************************************************************)
EXTENDS Integers, Sequences, FiniteSets, TLC

\* ------------------------------------------------------------------ bounds
\* Number of stored credentials (ids 1..NumCreds, created in that order).
NumCreds == 2
\* Number of control-plane requests that may be in progress at once.
NumCallers == 2
\* Total number of Worker tasks ever spawned.
MaxTasks == 2
\* Listener failures a Worker may suffer in the pool specification.
MaxReconnects == 1
\* Total number of control-plane requests served.
MaxCalls == 2

\* Payloads delivered to the callbacks.
MaxPayloads == 2
\* Payloads delivered in the shutdown specification.
MaxShutdownPayloads == 1
\* Distinct fcmMessageId values and distinct document bodies of the payloads.
NumFcmIds == 1
NumData == 2
\* The clock stops at MaxTime seconds.
MaxTime == 2
\* DEDUP_SECONDS (get_dedup_ttl, default 5).
ttl_seconds == 2
\* MAX_MESSAGES_PER_CREDENTIAL (get_max_messages_per_credential, default 50).
max_messages == 1

\* -------------------------------------------------------- program constants
\* DedupCache::is_duplicate: if cache.len() > 100
cleanup_threshold == 100
\* WebhookClient::new: max_retries: 3
webhook_max_retries == 3
\* FcmWorker::run: let max_retries = 10
max_retries == 10

CredIds == 1..NumCreds
Callers == 1..NumCallers
\* Option::None for a task handle or a row id.
None == 0

VARIABLES
    creds,        \* credentials table: id -> the row of that id
    topics,       \* credential_topics table: id -> the topics stored for it
    workers,      \* ListenerPool.workers: id -> task id of the handle, or None
    tasks,        \* the Worker tasks spawned so far (index = task id)
    call,         \* the control-plane requests in progress, per caller
    boot,         \* main's start_all_active at server start
    sd,           \* shutdown_signal's shutdown_all
    lastOp,       \* history: per id, the most recent start/stop and its result
    lastOk,       \* history: per id, the most recent operation that returned Ok
    ncalls,       \* history: the number of control-plane requests so far
    now,          \* the clock (Instant::now, Utc::now), in seconds
    pl,           \* the payload tasks the data callback spawned (index = task id)
    logs          \* message_logs table: a set of rows

vars == <<creds, topics, workers, tasks, call, boot, sd, lastOp, lastOk, ncalls, now, pl, logs>>

\* ------------------------------------------------------------ credentials
\* A string is the sequence of its characters.
http == <<"h", "t", "t", "p", ":", "/", "/">>
https == <<"h", "t", "t", "p", "s", ":", "/", "/">>

\* str::starts_with
starts_with(s, prefix) ==
    Len(s) >= Len(prefix) /\ SubSeq(s, 1, Len(prefix)) = prefix

\* The webhook URLs of the requests: two that are accepted, a different
\* scheme and a truncated prefix.
Urls ==
    {http \o <<"h">>, https \o <<"h">>,
     <<"f", "t", "p", ":", "/", "/", "h">>, <<"h", "t", "t", "p", ":", "/", "h">>}

\* The topic names of the requests.
Topics == {"t1"}

\* Credential::new: a fresh id (the row's key in creds), is_active = true,
\* is_suspended = false and no registration material.  exists tells a row
\* from the absence of one; used (history) that the id was handed out.
\* The column is_active holds the INTEGER of is_active when is_active_text is
\* empty, and else the TEXT is_active_text (is_active is then false: the
\* column does not equal 1).
Credential_new(webhook_url) ==
    [exists |-> TRUE, used |-> TRUE, is_active |-> TRUE, is_active_text |-> "",
     is_suspended |-> FALSE, webhook_url |-> webhook_url,
     fcm_token |-> None, gcm_token |-> None, android_id |-> None,
     security_token |-> None, private_key_base64 |-> None,
     auth_secret_base64 |-> None]

\* No row with the id (a SELECT returns None, an UPDATE affects 0 rows).
NoRow == [Credential_new(<<>>) EXCEPT !.exists = FALSE, !.used = FALSE,
                                       !.is_active = FALSE]

\* FcmRegistration: the six values a successful registration yields.
Registered(row) ==
    [row EXCEPT !.fcm_token = 1, !.gcm_token = 1, !.android_id = 1,
                !.security_token = 1, !.private_key_base64 = 1,
                !.auth_secret_base64 = 1]

\* A stored row of a credential that has registered, with the given flags.
StoredCredential(is_active, is_suspended) ==
    [Registered(Credential_new(http \o <<"h">>)) EXCEPT
        !.is_active = is_active, !.is_suspended = is_suspended]

\* The outcome of a store call.
StoreResults == {"Ok", "Err"}

\* bool::to_string
to_string(b) == IF b THEN "true" ELSE "false"

\* The outcomes of decoding a row into a Credential (query_as, FromRow): Ok;
\* for an is_active column that holds TEXT either Ok with is_active = false
\* (the TEXT read as an integer) or the Err of the type check.
decode_results(row) == IF row.is_active_text = "" THEN {"Ok"} ELSE {"Ok", "Err"}

\* credential_topics.credential_id and message_logs.credential_id reference
\* credentials(id) ON DELETE CASCADE, and the connection enforces foreign keys.
foreign_keys == TRUE

\* Option<T>: None is the empty set, Some(v) the set of v alone.
Option(S) == {{}} \cup {{v} : v \in S}

\* The value v of Some(v)
unwrap(o) == CHOOSE v \in o : TRUE

\* CreateCredentialRequest: webhook_url and topics (the fields that are only
\* stored are left out).
CreateRequests == [webhook_url : {{u} : u \in Urls}, is_active : {{}},
                   topics : {{ts} : ts \in SUBSET Topics}]

\* UpdateCredentialRequest: every field is optional.
UpdateRequests == [webhook_url : Option(Urls), is_active : Option(BOOLEAN),
                   topics : Option(SUBSET Topics)]

\* A request without a body.
NoBody == [webhook_url |-> {}, is_active |-> {}, topics |-> {}]

\* The message_logs rows of a credential id.
rows_of(cred) == {r \in logs : r.credential_id = cred}

\* Credential::can_start
can_start(c) == c.is_active /\ ~c.is_suspended

RECURSIVE DescSeq(_)
\* The ids of S as a sequence, newest (largest id) first.
DescSeq(S) ==
    IF S = {} THEN <<>>
    ELSE LET m == CHOOSE x \in S : \A y \in S : y <= x
         IN <<m>> \o DescSeq(S \ {m})

list_runnable_active_only ==
    DescSeq({c \in CredIds : creds[c].exists /\ creds[c].is_active})

\* Repository::list_runnable_credentials:
\*   WHERE is_active = 1 AND is_suspended = 0 ORDER BY created_at DESC
list_runnable_credentials ==
    DescSeq({c \in CredIds :
                creds[c].exists /\ creds[c].is_active /\ ~creds[c].is_suspended})

\* ------------------------------------------------------------ worker tasks
\* FcmWorker::new + tokio::spawn(worker.run()): a task at the top of its loop
\* with retry_count = 0, a fresh shutdown channel holding false and its own
\* empty DedupCache.  delay is the latest backoff sleep in seconds (0: none
\* yet); attempts (history) counts the calls of run_listener.  credential
\* is the Worker's own copy of the row, here the row as stored now.
NewWorker(c) ==
    [cred |-> c, st |-> "top", shutdown |-> FALSE, retry_count |-> 0,
     dedup_cache |-> {}, delay |-> 0, attempts |-> 0, credential |-> creds[c]]

TaskIds == 1..Len(tasks)

\* JoinHandle::is_finished
is_finished(t) == tasks[t].st = "done"

\* ListenerPool::is_running
is_running(c) == workers[c] # None /\ ~is_finished(workers[c])

\* ListenerPool::active_count
active_count == Cardinality({c \in CredIds : workers[c] # None /\ ~is_finished(workers[c])})

\* ----------------------------------------------------------- Worker loop
has_fcm_token_never(credential) == FALSE

\* run_listener: fcm_token.is_some() && private_key_base64.is_some()
has_fcm_token(credential) ==
    credential.fcm_token # None /\ credential.private_key_base64 # None

run_top_without_shutdown_check(t) ==
    /\ tasks[t].st = "top"
    /\ tasks' = [tasks EXCEPT
                   ![t].st = IF has_fcm_token(tasks[t].credential)
                             THEN "listening" ELSE "registering",
                   ![t].attempts = @ + 1]
    /\ UNCHANGED <<now, pl, logs, creds, topics, workers, call, boot, sd, lastOp, lastOk, ncalls>>

\* FcmWorker::run, top of the loop: break on shutdown, else enter run_listener
\* (register or load, subscribe, then the blocking start_listening).
run_top(t) ==
    /\ tasks[t].st = "top"
    /\ tasks' = [tasks EXCEPT
                   ![t].st = IF tasks[t].shutdown THEN "done"
                             ELSE IF has_fcm_token(tasks[t].credential)
                                  THEN "listening" ELSE "registering",
                   ![t].attempts = IF tasks[t].shutdown THEN @ ELSE @ + 1]
    /\ UNCHANGED <<now, pl, logs, creds, topics, workers, call, boot, sd, lastOp, lastOk, ncalls>>

listener_ok_reconnects(t) ==
    /\ tasks[t].st = "listening"
    /\ tasks' = [tasks EXCEPT ![t].st = "top"]
    /\ UNCHANGED <<now, pl, logs, creds, topics, workers, call, boot, sd, lastOp, lastOk, ncalls>>

\* run_listener returned Ok: "Listener exited normally", break.
listener_ok(t) ==
    /\ tasks[t].st = "listening"
    /\ tasks' = [tasks EXCEPT ![t].st = "done"]
    /\ UNCHANGED <<now, pl, logs, creds, topics, workers, call, boot, sd, lastOp, lastOk, ncalls>>

\* Duration::from_secs(5)
base_delay == 5

RECURSIVE pow2(_)
\* 2u32.pow(n)
pow2(n) == IF n = 0 THEN 1 ELSE 2 * pow2(n - 1)

backoff_delay_uncapped(retry_count) == base_delay * pow2(retry_count - 1)

\* let delay = base_delay * 2u32.pow((retry_count - 1).min(6))
backoff_delay(retry_count) ==
    base_delay * pow2(IF retry_count - 1 < 6 THEN retry_count - 1 ELSE 6)

retries_exhausted_early(retry_count) == retry_count >= max_retries

\* if retry_count > max_retries
retries_exhausted(retry_count) == retry_count > max_retries

\* run's Err(e) arm: retry_count += 1; stop past max_retries, else compute
\* the delay and back off.
Failed(t) ==
    [tasks EXCEPT
       ![t].retry_count = @ + 1,
       ![t].st = IF retries_exhausted(tasks[t].retry_count + 1)
                 THEN "done" ELSE "backoff",
       ![t].delay = IF retries_exhausted(tasks[t].retry_count + 1)
                    THEN @ ELSE backoff_delay(tasks[t].retry_count + 1)]

\* run_listener returned Err from the listening client.
listener_err(t) ==
    /\ tasks[t].st = "listening"
    /\ tasks' = Failed(t)
    /\ UNCHANGED <<now, pl, logs, creds, topics, workers, call, boot, sd, lastOp, lastOk, ncalls>>

\* The register path: the blocking registration returned the FcmRegistration.
register_ok(t) ==
    /\ tasks[t].st = "registering"
    /\ tasks' = [tasks EXCEPT ![t].st = "saving"]
    /\ UNCHANGED <<now, pl, logs, creds, topics, workers, call, boot, sd, lastOp, lastOk, ncalls>>

\* The register path: FcmClient::new, the key generation or register failed.
register_err(t) ==
    /\ tasks[t].st = "registering"
    /\ tasks' = Failed(t)
    /\ UNCHANGED <<now, pl, logs, creds, topics, workers, call, boot, sd, lastOp, lastOk, ncalls>>

save_skipped(c) == creds

update_credential_registration_tokens_only(c) ==
    [creds EXCEPT ![c] = IF @.exists
                         THEN [@ EXCEPT !.fcm_token = 1, !.gcm_token = 1]
                         ELSE @]

\* Repository::update_credential_registration: UPDATE ... WHERE id = ?
update_credential_registration(c) ==
    [creds EXCEPT ![c] = IF @.exists THEN Registered(@) ELSE @]

\* The register path after the registration: the store update, whose Err
\* run_listener returns; on Ok (whatever rows_affected) the Worker's own
\* credential takes the six values and the listening client is started.
save_registration(t) ==
    /\ tasks[t].st = "saving"
    /\ \E r \in StoreResults :
         IF r = "Ok"
         THEN /\ creds' = update_credential_registration(tasks[t].cred)
              /\ tasks' = [tasks EXCEPT ![t].credential = Registered(@),
                                        ![t].st = "listening"]
         ELSE /\ creds' = creds
              /\ tasks' = Failed(t)
    /\ UNCHANGED <<now, pl, logs, topics, workers, call, boot, sd, lastOp, lastOk, ncalls>>

\* The backoff select!: the sleep elapsed (or changed() resolved without a true
\* value because the sender was dropped): next loop iteration.
backoff_elapsed(t) ==
    /\ tasks[t].st = "backoff"
    /\ tasks' = [tasks EXCEPT ![t].st = "top"]
    /\ UNCHANGED <<now, pl, logs, creds, topics, workers, call, boot, sd, lastOp, lastOk, ncalls>>

\* The backoff select!: shutdown_rx.changed() won and the value is true: break.
backoff_shutdown(t) ==
    /\ tasks[t].st = "backoff"
    /\ tasks[t].shutdown
    /\ tasks' = [tasks EXCEPT ![t].st = "done"]
    /\ UNCHANGED <<now, pl, logs, creds, topics, workers, call, boot, sd, lastOp, lastOk, ncalls>>

\* ------------------------------------------------------- ListenerPool ops
guard_held_in_select_always == TRUE

\* stop_worker and shutdown_all take the write guard inside a block that ends
\* before the select!: the guard is dropped when the wait begins.
guard_held_in_select == FALSE

\* self.workers.read().await / .write().await by caller p (None: by
\* shutdown_all) returns: no other call holds a guard of the map.  A guard is
\* held within one step only, but for a guard kept during a select!.
MapFree(p) ==
    \/ ~guard_held_in_select
    \/ /\ p # None => sd.pc # "wait"
       /\ \A q \in Callers \ {p} : call[q].pc # "wait"

AlreadyRunning_unfinished(c) == workers[c] # None /\ ~is_finished(workers[c])

\* start_worker, first block: contains_key under the read lock.
AlreadyRunning(c) == workers[c] # None

\* start_worker, after the check: spawn the Worker on the caller's copy of
\* the credential, then insert the handle under the write lock
\* (HashMap::insert replaces an existing entry).
SpawnAndStore(c, credential) ==
    /\ tasks' = Append(tasks, [NewWorker(c) EXCEPT !.credential = credential])
    /\ workers' = [workers EXCEPT ![c] = Len(tasks) + 1]

\* overlap (history): another pool call on the same credential id has been in
\* progress at some moment of this call.
\* req is what is left to use of the request's body, snap the credential row
\* as the handler read it, was (history) the handler that returned res.
Idle ==
    [op |-> "idle", pc |-> "idle", cred |-> None, h |-> None, res |-> "none",
     overlap |-> FALSE, req |-> NoBody, snap |-> NoRow, was |-> "none"]

\* The caller's record once its call returned res: the result and, for a
\* stop_worker, the handle it took out of the map.
Returned(p, res) ==
    [op |-> "idle", pc |-> "idle", cred |-> None, h |-> call[p].h, res |-> res,
     overlap |-> FALSE, req |-> NoBody, snap |-> NoRow,
     was |-> IF call[p].op \in {"start", "stop", "restart"} THEN "none" ELSE call[p].op]

\* Requests are served after start_all_active returned and until the
\* graceful shutdown begins (when shutdown_signal's future completes).
Serving == boot.pc = "done" /\ sd.pc # "done"

\* start_worker or restart_worker calls that have not spawned their Worker yet
PendingSpawns ==
    Cardinality({p \in Callers :
                   call[p].op \in {"start", "restart", "start_listener", "update"}})

\* A control-plane request calls start_worker, stop_worker or restart_worker.
Invoke(p, op, c) ==
    /\ Serving
    /\ call[p].pc = "idle"
    /\ ncalls < MaxCalls
    /\ op \in {"start", "restart"} => Len(tasks) + PendingSpawns < MaxTasks
    /\ ncalls' = ncalls + 1
    /\ call' = [q \in Callers |->
                  IF q = p
                  THEN [op |-> op, pc |-> IF op = "start" THEN "check" ELSE "remove",
                        cred |-> c, h |-> None, res |-> "none",
                        overlap |-> \E r \in Callers \ {p} : call[r].cred = c,
                        req |-> NoBody, snap |-> creds[c], was |-> "none"]
                  ELSE IF call[q].cred = c
                       THEN [call[q] EXCEPT !.overlap = TRUE]
                       ELSE call[q]]
    /\ UNCHANGED <<now, pl, logs, creds, topics, workers, tasks, boot, sd, lastOp, lastOk>>

\* update_credential after `let _ = pool.restart_worker(..)`: stop_worker
\* when is_active was set to false (was_running holds here), then Ok.
AfterRestart(p) ==
    IF call[p].req.is_active = {FALSE}
    THEN [call[p] EXCEPT !.op = "update_stop", !.pc = "remove"]
    ELSE Returned(p, "Ok")

\* What follows start_worker's return: the callers of start_worker return its
\* result, update_credential ignores restart_worker's.
AfterStart(p, res) ==
    IF call[p].op = "update" THEN AfterRestart(p) ELSE Returned(p, res)

\* start_worker: the check. Err(WorkerAlreadyRunning) when a handle exists.
start_worker_check(p) ==
    LET c == call[p].cred IN
    /\ call[p].pc = "check"
    /\ MapFree(p)
    /\ IF AlreadyRunning(c)
       THEN /\ call' = [call EXCEPT ![p] = AfterStart(p, "WorkerAlreadyRunning")]
            /\ lastOp' = [lastOp EXCEPT ![c] = "startErr"]
       ELSE /\ call' = [call EXCEPT ![p].pc = "insert"]
            /\ UNCHANGED lastOp
    /\ UNCHANGED <<now, pl, logs, creds, topics, workers, tasks, boot, sd, lastOk, ncalls>>

\* start_worker: spawn, store the handle, return Ok.
start_worker_insert(p) ==
    LET c == call[p].cred IN
    /\ call[p].pc = "insert"
    /\ MapFree(p)
    /\ SpawnAndStore(c, call[p].snap)
    /\ call' = [call EXCEPT ![p] = AfterStart(p, "Ok")]
    /\ lastOp' = [lastOp EXCEPT ![c] = "startOk"]
    /\ lastOk' = [lastOk EXCEPT ![c] = "start"]
    /\ UNCHANGED <<now, pl, logs, creds, topics, boot, sd, ncalls>>

restart_propagates_stop_error(p, res) ==
    IF call[p].op = "restart" /\ res = "Ok"
    THEN [call[p] EXCEPT !.pc = "check"]
    ELSE Returned(p, res)

\* What follows stop_worker's return: restart_worker (also the one of
\* update_credential) goes on to start_worker whatever the result (let _ =);
\* suspend_credential and delete_credential go on to their store call
\* whatever the result; update_credential's final stop_worker is followed by
\* Ok; stop_worker's other callers return its result.
AfterStop(p, res) ==
    CASE call[p].op \in {"restart", "update"} -> [call[p] EXCEPT !.pc = "check"]
      [] call[p].op \in {"suspend", "delete"} -> [call[p] EXCEPT !.pc = "store"]
      [] call[p].op = "update_stop" -> Returned(p, "Ok")
      [] OTHER -> Returned(p, res)

remove_keeps_entry(c) == workers

\* HashMap::remove(credential_id) on the workers map
remove(c) == [workers EXCEPT ![c] = None]

Signalled_not_sent(ts, h) == ts

\* watch::Sender::send(true) on the handle's shutdown channel
Signalled(ts, h) == [ts EXCEPT ![h].shutdown = TRUE]

\* stop_worker: remove the handle under the write lock; None is
\* Err(WorkerNotRunning); Some: send(true) on its shutdown channel, then wait.
stop_worker_remove(p) ==
    LET c == call[p].cred
        h == workers[c]
    IN
    /\ call[p].pc = "remove"
    /\ MapFree(p)
    /\ workers' = remove(c)
    /\ IF h = None
       THEN /\ call' = [call EXCEPT ![p] = AfterStop(p, "WorkerNotRunning")]
            /\ lastOp' = [lastOp EXCEPT ![c] = "stopErr"]
            /\ UNCHANGED <<tasks, lastOk>>
       ELSE /\ tasks' = Signalled(tasks, h)
            /\ call' = [call EXCEPT ![p].pc = "wait", ![p].h = h]
            /\ lastOp' = [lastOp EXCEPT ![c] = "stopOk"]
            /\ lastOk' = [lastOk EXCEPT ![c] = "stop"]
    /\ UNCHANGED <<now, pl, logs, creds, topics, boot, sd, ncalls>>

\* stop_worker's select!: the task finished ("stopped gracefully"), Ok.
stop_worker_join(p) ==
    /\ call[p].pc = "wait"
    /\ is_finished(call[p].h)
    /\ call' = [call EXCEPT ![p] = AfterStop(p, "Ok")]
    /\ UNCHANGED <<now, pl, logs, creds, topics, workers, tasks, boot, sd, lastOp, lastOk, ncalls>>

stop_worker_without_timer(p) == stop_worker_join(p)

\* stop_worker's select!: the 3 s sleep won ("shutdown timed out"), Ok.
stop_worker_timeout(p) ==
    /\ call[p].pc = "wait"
    /\ call' = [call EXCEPT ![p] = AfterStop(p, "Ok")]
    /\ UNCHANGED <<now, pl, logs, creds, topics, workers, tasks, boot, sd, lastOp, lastOk, ncalls>>

\* ------------------------------------------------- control-plane handlers
\* The handlers of /api/credentials.  Their store calls are taken to succeed
\* (an Err is returned to the client with `?`), but for the statements of
\* set_credential_topics and the decoding of a row.

\* The handlers of the model.
Handlers ==
    {"create", "update", "delete", "suspend", "unsuspend", "start_listener"}

\* The ids no credential was created with yet (Uuid::new_v4 is fresh).
FreshIds == {c \in CredIds : ~creds[c].used}

\* The create requests that have not inserted their row yet.
PendingCreates ==
    Cardinality({p \in Callers : call[p].op = "create" /\ call[p].pc = "begin"})

\* The router hands a request to its handler: one of Handlers for the id in
\* the path (create has none) and the JSON body (create and update).
Handle(p, op, c, req) ==
    /\ Serving
    /\ call[p].pc = "idle"
    /\ ncalls < MaxCalls
    /\ op \in Handlers
    /\ op = "create" => c = None /\ req \in CreateRequests
                        /\ PendingCreates < Cardinality(FreshIds)
    /\ op # "create" => c \in CredIds
    /\ op = "update" => req \in UpdateRequests
    /\ op \notin {"create", "update"} => req = NoBody
    /\ op \in {"update", "start_listener"} => Len(tasks) + PendingSpawns < MaxTasks
    /\ ncalls' = ncalls + 1
    /\ call' = [q \in Callers |->
                  IF q = p
                  THEN [op |-> op, pc |-> "begin", cred |-> c, h |-> None,
                        res |-> "none",
                        overlap |-> c # None /\ \E r \in Callers \ {p} : call[r].cred = c,
                        req |-> req, snap |-> NoRow, was |-> "none"]
                  ELSE IF c # None /\ call[q].cred = c
                       THEN [call[q] EXCEPT !.overlap = TRUE]
                       ELSE call[q]]
    /\ UNCHANGED <<now, pl, logs, creds, topics, workers, tasks, boot, sd, lastOp, lastOk>>

validated_always(url) == TRUE

\* url.starts_with("http://") || url.starts_with("https://")
validated(url) == starts_with(url, http) \/ starts_with(url, https)

\* create_credential up to repo.create_credential: BadRequest before anything
\* else when the URL is not accepted; else Credential::new and the INSERT.
create_credential(p) ==
    LET url == unwrap(call[p].req.webhook_url)
        id == CHOOSE c \in FreshIds : \A d \in FreshIds : c <= d
    IN
    /\ call[p].op = "create" /\ call[p].pc = "begin"
    /\ IF ~validated(url)
       THEN /\ call' = [call EXCEPT ![p] = Returned(p, "BadRequest")]
            /\ creds' = creds
       ELSE /\ creds' = [creds EXCEPT ![id] = Credential_new(url)]
            /\ call' = [call EXCEPT ![p] =
                          IF unwrap(call[p].req.topics) = {}
                          THEN Returned(p, "Ok")
                          ELSE [call[p] EXCEPT !.cred = id, !.pc = "topics"]]
    /\ UNCHANGED <<now, pl, logs, topics, workers, tasks, boot, sd, lastOp, lastOk, ncalls>>

\* What follows set_credential_topics' Ok: create_credential answers Ok (no
\* call of the pool: the credential is not started), update_credential goes
\* on to get_credential.
AfterTopics(p) ==
    IF call[p].op = "create" THEN Returned(p, "Ok")
    ELSE [call[p] EXCEPT !.req.topics = {}, !.pc = "get"]

\* DELETE FROM credential_topics WHERE credential_id = ?
delete_topics(c, p) == [topics EXCEPT ![c] = {}]

\* Repository::set_credential_topics, its first statement: the DELETE of the
\* credential's topics, executed on the pool by itself (no transaction); an
\* Err ends the handler.  req.topics holds the topics still to insert.
set_credential_topics_delete(p, r) ==
    LET c == call[p].cred IN
    /\ call[p].op \in {"create", "update"} /\ call[p].pc = "topics"
    /\ IF r = "Ok"
       THEN /\ topics' = delete_topics(c, p)
            /\ call' = [call EXCEPT ![p] =
                          IF unwrap(call[p].req.topics) = {} THEN AfterTopics(p)
                          ELSE [call[p] EXCEPT !.pc = "topics_insert"]]
       ELSE /\ topics' = topics
            /\ call' = [call EXCEPT ![p] = Returned(p, "Database")]
    /\ UNCHANGED <<now, pl, logs, creds, workers, tasks, boot, sd, lastOp, lastOk, ncalls>>

\* Repository::set_credential_topics, one turn of its loop: the INSERT of the
\* next topic, which the foreign key rejects when the credential has no row;
\* an Err ends the handler, leaving what the earlier statements wrote.
set_credential_topics_insert(p, r) ==
    LET c == call[p].cred
        todo == unwrap(call[p].req.topics)
    IN
    /\ call[p].op \in {"create", "update"} /\ call[p].pc = "topics_insert"
    /\ \E topic \in todo :
         IF r = "Ok" /\ (foreign_keys => creds[c].exists)
         THEN /\ topics' = [topics EXCEPT ![c] = @ \cup {topic}]
              /\ call' = [call EXCEPT ![p] =
                            IF todo = {topic} THEN AfterTopics(p)
                            ELSE [call[p] EXCEPT !.req.topics = {todo \ {topic}}]]
         ELSE /\ topics' = topics
              /\ call' = [call EXCEPT ![p] = Returned(p, "Database")]
    /\ UNCHANGED <<now, pl, logs, creds, workers, tasks, boot, sd, lastOp, lastOk, ncalls>>

\* update_credential up to repo.update_credential: NotFound when the id has
\* no row, then BadRequest when a URL is given and not accepted.
update_credential(p) ==
    LET c == call[p].cred
        url == call[p].req.webhook_url
    IN
    /\ call[p].op = "update" /\ call[p].pc = "begin"
    /\ \E r \in decode_results(creds[c]) :
         call' = [call EXCEPT ![p] =
                    IF r = "Err" THEN Returned(p, "Database")
                    ELSE IF ~creds[c].exists THEN Returned(p, "NotFound")
                    ELSE IF url # {} /\ ~validated(unwrap(url))
                         THEN Returned(p, "BadRequest")
                         ELSE [call[p] EXCEPT !.pc = "store"]]
    /\ UNCHANGED <<now, pl, logs, creds, topics, workers, tasks, boot, sd, lastOp, lastOk, ncalls>>

\* Repository::update_credential: UPDATE ... SET the given fields WHERE id = ?
\* Every parameter is bound as a String (params: Vec<String>), is_active as
\* a.to_string(): the column then holds the TEXT 'true' or 'false'.
update_credential_row(row, req) ==
    IF ~row.exists THEN row
    ELSE [row EXCEPT
            !.webhook_url = IF req.webhook_url = {} THEN @ ELSE unwrap(req.webhook_url),
            !.is_active = IF req.is_active = {} THEN @ ELSE FALSE,
            !.is_active_text = IF req.is_active = {} THEN @
                               ELSE to_string(unwrap(req.is_active))]

\* update_credential: repo.update_credential (rows_affected is not looked at).
update_credential_store(p) ==
    LET c == call[p].cred IN
    /\ call[p].op = "update" /\ call[p].pc = "store"
    /\ creds' = [creds EXCEPT ![c] = update_credential_row(@, call[p].req)]
    /\ call' = [call EXCEPT ![p].req.webhook_url = {},
                            ![p].pc = IF call[p].req.topics = {} THEN "get" ELSE "topics"]
    /\ UNCHANGED <<now, pl, logs, topics, workers, tasks, boot, sd, lastOp, lastOk, ncalls>>

\* update_credential: get_credential(&id).await?.unwrap(), which panics when
\* the row is gone (the request's task ends, the client gets no answer).
update_credential_get(p) ==
    LET c == call[p].cred IN
    /\ call[p].op = "update" /\ call[p].pc = "get"
    /\ \E r \in decode_results(creds[c]) :
         call' = [call EXCEPT ![p] =
                    IF r = "Err" THEN Returned(p, "Database")
                    ELSE IF creds[c].exists
                         THEN [call[p] EXCEPT !.snap = creds[c], !.pc = "is_running"]
                         ELSE Returned(p, "Panic")]
    /\ UNCHANGED <<now, pl, logs, creds, topics, workers, tasks, boot, sd, lastOp, lastOk, ncalls>>

\* update_credential: was_running = pool.is_running(&id); restart_worker when
\* it holds, else Ok (the final stop_worker needs was_running too).
update_credential_is_running(p) ==
    LET c == call[p].cred IN
    /\ call[p].op = "update" /\ call[p].pc = "is_running"
    /\ MapFree(p)
    /\ call' = [call EXCEPT ![p] =
                  IF is_running(c)
                  THEN [call[p] EXCEPT !.pc = "remove"]
                  ELSE Returned(p, "Ok")]
    /\ UNCHANGED <<now, pl, logs, creds, topics, workers, tasks, boot, sd, lastOp, lastOk, ncalls>>

\* delete_credential, suspend_credential and unsuspend_credential up to their
\* first call after get_credential: NotFound when the id has no row; else
\* stop_worker (delete, suspend) or the store call (unsuspend).
get_credential_or_not_found(p) ==
    LET c == call[p].cred IN
    /\ call[p].op \in {"delete", "suspend", "unsuspend"} /\ call[p].pc = "begin"
    /\ \E r \in decode_results(creds[c]) :
         call' = [call EXCEPT ![p] =
                    IF r = "Err" THEN Returned(p, "Database")
                    ELSE IF ~creds[c].exists THEN Returned(p, "NotFound")
                    ELSE [call[p] EXCEPT !.snap = creds[c],
                                         !.pc = IF call[p].op = "unsuspend"
                                                THEN "store" ELSE "remove"]]
    /\ UNCHANGED <<now, pl, logs, creds, topics, workers, tasks, boot, sd, lastOp, lastOk, ncalls>>

\* Repository::delete_credential: DELETE FROM credentials WHERE id = ?; the
\* topics and the message_logs tables it leaves.
delete_cascade(c) ==
    IF foreign_keys
    THEN <<[topics EXCEPT ![c] = {}], logs \ rows_of(c)>>
    ELSE <<topics, logs>>

\* delete_credential after `let _ = pool.stop_worker(&id)`: the DELETE, Ok.
delete_credential_store(p) ==
    LET c == call[p].cred IN
    /\ call[p].op = "delete" /\ call[p].pc = "store"
    /\ creds' = [creds EXCEPT ![c] = [NoRow EXCEPT !.used = TRUE]]
    /\ topics' = delete_cascade(c)[1]
    /\ logs' = delete_cascade(c)[2]
    /\ call' = [call EXCEPT ![p] = Returned(p, "Ok")]
    /\ UNCHANGED <<now, pl, workers, tasks, boot, sd, lastOp, lastOk, ncalls>>

\* Repository::suspend_credential: UPDATE ... SET is_suspended = 1 WHERE id = ?
suspend_row(row) == IF row.exists THEN [row EXCEPT !.is_suspended = TRUE] ELSE row

\* Repository::unsuspend_credential: UPDATE ... SET is_suspended = 0 WHERE id = ?
unsuspend_row(row) == IF row.exists THEN [row EXCEPT !.is_suspended = FALSE] ELSE row

\* suspend_credential after `let _ = pool.stop_worker(&id)`: the UPDATE, Ok.
suspend_credential_store(p) ==
    LET c == call[p].cred IN
    /\ call[p].op = "suspend" /\ call[p].pc = "store"
    /\ creds' = [creds EXCEPT ![c] = suspend_row(@)]
    /\ call' = [call EXCEPT ![p] = Returned(p, "Ok")]
    /\ UNCHANGED <<now, pl, logs, topics, workers, tasks, boot, sd, lastOp, lastOk, ncalls>>

\* unsuspend_credential: the UPDATE, Ok.
unsuspend_credential_store(p) ==
    LET c == call[p].cred IN
    /\ call[p].op = "unsuspend" /\ call[p].pc = "store"
    /\ creds' = [creds EXCEPT ![c] = unsuspend_row(@)]
    /\ call' = [call EXCEPT ![p] = Returned(p, "Ok")]
    /\ UNCHANGED <<now, pl, logs, topics, workers, tasks, boot, sd, lastOp, lastOk, ncalls>>

\* start_listener up to pool.start_worker(&credential): NotFound, BadRequest
\* for an inactive and for a suspended credential.
start_listener(p) ==
    LET c == call[p].cred IN
    /\ call[p].op = "start_listener" /\ call[p].pc = "begin"
    /\ \E r \in decode_results(creds[c]) :
         call' = [call EXCEPT ![p] =
                    IF r = "Err" THEN Returned(p, "Database")
                    ELSE IF ~creds[c].exists THEN Returned(p, "NotFound")
                    ELSE IF ~creds[c].is_active \/ creds[c].is_suspended
                         THEN Returned(p, "BadRequest")
                         ELSE [call[p] EXCEPT !.snap = creds[c], !.pc = "check"]]
    /\ UNCHANGED <<now, pl, logs, creds, topics, workers, tasks, boot, sd, lastOp, lastOk, ncalls>>

\* ------------------------------------------------------- start_all_active
BootAdvance ==
    LET rest == Tail(boot.todo) IN
    [pc |-> IF rest = <<>> THEN "done" ELSE "check", todo |-> rest]

\* start_all_active: the listing (taken to succeed; on a store error line 39
\* returns it before any start_worker call).
start_all_list ==
    /\ boot.pc = "list"
    /\ boot' = [pc |-> IF list_runnable_credentials = <<>> THEN "done" ELSE "check",
                todo |-> list_runnable_credentials]
    /\ UNCHANGED <<now, pl, logs, creds, topics, workers, tasks, call, sd, lastOp, lastOk, ncalls>>

\* The loop body's start_worker check; an Err is logged and the loop goes on.
start_all_check ==
    LET c == Head(boot.todo) IN
    /\ boot.pc = "check"
    /\ IF AlreadyRunning(c)
       THEN /\ boot' = BootAdvance
            /\ lastOp' = [lastOp EXCEPT ![c] = "startErr"]
       ELSE /\ boot' = [boot EXCEPT !.pc = "insert"]
            /\ UNCHANGED lastOp
    /\ UNCHANGED <<now, pl, logs, creds, topics, workers, tasks, call, sd, lastOk, ncalls>>

\* The loop body's start_worker spawn and insert.
start_all_insert ==
    LET c == Head(boot.todo) IN
    /\ boot.pc = "insert"
    /\ SpawnAndStore(c, creds[c])
    /\ boot' = BootAdvance
    /\ lastOp' = [lastOp EXCEPT ![c] = "startOk"]
    /\ lastOk' = [lastOk EXCEPT ![c] = "start"]
    /\ UNCHANGED <<now, pl, logs, creds, topics, call, sd, ncalls>>

\* ----------------------------------------------------------- shutdown_all
\* shutdown_all: drain the map under the write lock.
shutdown_all_drain ==
    /\ boot.pc = "done"
    /\ sd.pc = "idle"
    /\ MapFree(None)
    /\ sd' = [pc |-> "loop", todo |-> {workers[c] : c \in CredIds} \ {None}, h |-> None]
    /\ workers' = [c \in CredIds |-> None]
    /\ lastOp' = [c \in CredIds |-> IF workers[c] # None THEN "drained" ELSE lastOp[c]]
    /\ lastOk' = [c \in CredIds |-> IF workers[c] # None THEN "drain" ELSE lastOk[c]]
    /\ UNCHANGED <<now, pl, logs, creds, topics, tasks, call, boot, ncalls>>

\* The for loop: take the next handle (HashMap order), send(true), then wait.
shutdown_all_signal ==
    /\ sd.pc = "loop"
    /\ \E h \in sd.todo :
         /\ tasks' = Signalled(tasks, h)
         /\ sd' = [pc |-> "wait", todo |-> sd.todo \ {h}, h |-> h]
    /\ UNCHANGED <<now, pl, logs, creds, topics, workers, call, boot, lastOp, lastOk, ncalls>>

\* The select!: the task finished.
shutdown_all_join ==
    /\ sd.pc = "wait"
    /\ is_finished(sd.h)
    /\ sd' = [sd EXCEPT !.pc = "loop"]
    /\ UNCHANGED <<now, pl, logs, creds, topics, workers, tasks, call, boot, lastOp, lastOk, ncalls>>

\* The select!: the 2 s sleep won.
shutdown_all_timeout ==
    /\ sd.pc = "wait"
    /\ sd' = [sd EXCEPT !.pc = "loop"]
    /\ UNCHANGED <<now, pl, logs, creds, topics, workers, tasks, call, boot, lastOp, lastOk, ncalls>>

\* All handles handled: "All FCM workers stopped", return.
shutdown_all_return ==
    /\ sd.pc = "loop"
    /\ sd.todo = {}
    /\ sd' = [sd EXCEPT !.pc = "done"]
    /\ UNCHANGED <<now, pl, logs, creds, topics, workers, tasks, call, boot, lastOp, lastOk, ncalls>>

\* ------------------------------------------------------------ payload texts
\* A payload text is its bytes: byte 1 encodes the value of the JSON field
\* fcmMessageId (0: the field is absent or not a string), byte 2 the rest of
\* the document.
Payloads == {<<f, d>> : f \in 0..NumFcmIds, d \in 1..NumData}

\* MessageLog::extract_fcm_message_id: the string under "fcmMessageId", or None.
extract_fcm_message_id(text) == text[1]

\* ---------------------------------------------------------------- DedupCache
\* A u64 is four 16-bit limbs, least significant first.
Limb == 65536

\* FNV_OFFSET = 14695981039346656037 = 0xCBF29CE484222325
FNV_OFFSET == <<8997, 33826, 40164, 52210>>

\* FNV_PRIME = 1099511628211 = 2^40 + 435
FNV_PRIME_LOW == 435

RECURSIVE BitXor(_, _, _)
\* a ^ b on n-bit operands.
BitXor(a, b, n) ==
    IF n = 0 THEN 0
    ELSE (((a % 2) + (b % 2)) % 2) + 2 * BitXor(a \div 2, b \div 2, n - 1)

\* hash ^= byte as u64; hash = hash.wrapping_mul(FNV_PRIME)
fnv_step(h, byte) ==
    LET x0 == (h[1] - (h[1] % 256)) + BitXor(h[1] % 256, byte, 8)
        m0 == x0 * FNV_PRIME_LOW
        m1 == (h[2] * FNV_PRIME_LOW) + (m0 \div Limb)
        m2 == (h[3] * FNV_PRIME_LOW) + (m1 \div Limb) + ((x0 * 256) % Limb)
        m3 == (h[4] * FNV_PRIME_LOW) + (m2 \div Limb)
                + (((x0 \div 256) + (h[2] * 256)) % Limb)
    IN <<m0 % Limb, m1 % Limb, m2 % Limb, m3 % Limb>>

RECURSIVE fnv_fold(_, _)
fnv_fold(h, bytes) ==
    IF bytes = <<>> THEN h
    ELSE fnv_fold(fnv_step(h, Head(bytes)), Tail(bytes))

\* DedupCache::hash_content
hash_content(text) == fnv_fold(FNV_OFFSET, text)

\* Instant::duration_since saturates at zero.
duration_since(later, earlier) == IF later >= earlier THEN later - earlier ELSE 0

\* is_duplicate, the read-locked block: an unexpired entry for the hash.
cache_hit(cache, hash, at) ==
    \E e \in cache : e.hash = hash /\ duration_since(at, e.at) < ttl_seconds

\* is_duplicate, the write-locked block: retain the unexpired entries when the
\* map holds more than 100, then insert (hash, now).
cache_insert(cache, hash, at) ==
    LET kept == IF Cardinality(cache) > cleanup_threshold
                THEN {e \in cache : duration_since(at, e.at) < ttl_seconds}
                ELSE cache
    IN {e \in kept : e.hash # hash} \cup {[hash |-> hash, at |-> at]}

\* --------------------------------------------------------- message log store
\* Option::None for webhook_status (SQL NULL).
Null == -1

\* The schema has no unique index on (credential_id, fcm_message_id): the
\* pair is kept unique by the check before the insert.
unique_fcm_message_id == FALSE

is_fcm_message_duplicate_other_credential(cred, fcm) ==
    \E r \in logs : r.credential_id # cred /\ r.fcm_message_id = fcm

\* Repository::is_fcm_message_duplicate: COUNT(*) > 0
is_fcm_message_duplicate(cred, fcm) ==
    \E r \in logs : r.credential_id = cred /\ r.fcm_message_id = fcm

\* MessageLog::new: status and response None, received_at = Utc::now().
\* The row id (a fresh UUID) is the id of the payload task that creates it.
MessageLog_new(id, cred, fcm, text, at) ==
    [id |-> id, credential_id |-> cred, fcm_message_id |-> fcm, payload |-> text,
     webhook_status |-> Null, webhook_response |-> <<>>, received_at |-> at]

\* Repository::create_message_log accepts the row (primary key id; the unique
\* index when the schema has one).
insert_accepted(row) ==
    /\ \A r \in logs : r.id # row.id
    /\ foreign_keys => creds[row.credential_id].exists
    /\ unique_fcm_message_id /\ row.fcm_message_id # None
         => ~is_fcm_message_duplicate(row.credential_id, row.fcm_message_id)

\* Repository::cleanup_old_messages: the sets the DELETE may leave, i.e. the
\* first max_count rows of the credential ORDER BY received_at DESC (rows of
\* equal received_at in any order).
cleanup_keeps(cred, max_count) ==
    {keep \in SUBSET rows_of(cred) :
        /\ Cardinality(keep) = IF Cardinality(rows_of(cred)) < max_count
                               THEN Cardinality(rows_of(cred)) ELSE max_count
        /\ \A r \in keep, s \in rows_of(cred) \ keep : r.received_at >= s.received_at}

cleanup_every_credential(cred, keep) == keep

\* The table after cleanup_old_messages kept `keep` of the credential's rows.
cleanup_old_messages(cred, keep) == (logs \ rows_of(cred)) \cup keep

\* result.rows_affected() of that DELETE
rows_affected(cred, keep) == Cardinality(rows_of(cred) \ keep)

update_not_written(id, status, response) == logs

\* Repository::update_message_webhook_status: UPDATE ... WHERE id = ?
update_message_webhook_status(id, status, response) ==
    {IF r.id = id
     THEN [r EXCEPT !.webhook_status = status, !.webhook_response = response]
     ELSE r : r \in logs}

\* Repository::clear_credential_messages
clear_credential_messages(cred) == logs \ rows_of(cred)

\* ------------------------------------------------------------- payload tasks
PipeIds == 1..Len(pl)

poolVars == <<creds, topics, workers, call, boot, sd, lastOp, lastOk, ncalls>>

\* The task the on_data_message callback spawns for a payload of Worker t.
\* instant is is_duplicate's `now`, received_at the log's, status the log's
\* webhook_status.  History: fail_open (the persistent check returned Err),
\* outs, updated and writes (see send_once, send_update), late (shutdown_all
\* had returned when the payload was delivered).  last_error is send's local
\* of that name, result the value send returned, deleted the count
\* cleanup_old_messages returned to this task (Null: no Ok yet), inserted
\* (history) that create_message_log returned Ok to this task, sleeps
\* (history) the milliseconds of each sleep of send, in order; url is the
\* callback's clone of the webhook_url of the Worker's credential; calls
\* (history) the calls of create_message_log, cleanup_old_messages and
\* webhook_client.send the task has made, in order.
NewPayloadTask(t, text) ==
    [w |-> t, cred |-> tasks[t].cred, text |-> text,
     url |-> tasks[t].credential.webhook_url,
     pc |-> IF extract_fcm_message_id(text) # None THEN "check_fcm" ELSE "is_duplicate",
     instant |-> 0, received_at |-> 0, attempt |-> 0, status |-> Null,
     fail_open |-> FALSE, outs |-> <<>>, updated |-> "none",
     late |-> (sd.pc = "done"),
     last_error |-> <<>>, writes |-> <<>>, result |-> "none", deleted |-> Null,
     inserted |-> FALSE, sleeps |-> <<>>, calls |-> <<>>]

\* The push client hands a payload to the callback of a listening Worker; the
\* callback spawns the task and returns.
on_data_message(t, text) ==
    /\ tasks[t].st = "listening"
    /\ Len(pl) < MaxPayloads
    /\ pl' = Append(pl, NewPayloadTask(t, text))
    /\ UNCHANGED <<now, logs, tasks, poolVars>>

check_fcm_fail_closed(k) ==
    /\ pl[k].pc = "check_fcm"
    /\ \E r \in StoreResults :
         pl' = [pl EXCEPT
                  ![k].fail_open = (r = "Err"),
                  ![k].pc =
                     IF r = "Err" \/ is_fcm_message_duplicate(pl[k].cred,
                                        extract_fcm_message_id(pl[k].text))
                     THEN "dup_fcm" ELSE "is_duplicate"]
    /\ UNCHANGED <<now, logs, tasks, poolVars>>

\* repo.is_fcm_message_duplicate(..).await: Ok(true) returns, Ok(false) and
\* Err go on to the in-memory check.
check_fcm(k) ==
    /\ pl[k].pc = "check_fcm"
    /\ \E r \in StoreResults :
         pl' = [pl EXCEPT
                  ![k].fail_open = (r = "Err"),
                  ![k].pc =
                     IF r = "Ok" /\ is_fcm_message_duplicate(pl[k].cred,
                                        extract_fcm_message_id(pl[k].text))
                     THEN "dup_fcm" ELSE "is_duplicate"]
    /\ UNCHANGED <<now, logs, tasks, poolVars>>

\* DedupCache::is_duplicate up to the end of the read-locked block: now is
\* taken, a hit returns true and the callback task returns.
is_duplicate_read(k) ==
    /\ pl[k].pc = "is_duplicate"
    /\ pl' = [pl EXCEPT
                ![k].instant = now,
                ![k].pc = IF cache_hit(tasks[pl[k].w].dedup_cache,
                                       hash_content(pl[k].text), now)
                          THEN "dup_memory" ELSE "is_duplicate_write"]
    /\ UNCHANGED <<now, logs, tasks, poolVars>>

\* DedupCache::is_duplicate, the write-locked block, returning false; then
\* MessageLog::new (received_at = Utc::now()) up to the insert's await.
is_duplicate_write(k) ==
    /\ pl[k].pc = "is_duplicate_write"
    /\ tasks' = [tasks EXCEPT ![pl[k].w].dedup_cache =
                    cache_insert(@, hash_content(pl[k].text), pl[k].instant)]
    /\ pl' = [pl EXCEPT ![k].received_at = now, ![k].pc = "create_message_log"]
    /\ UNCHANGED <<now, logs, poolVars>>

create_message_log_error_ignored(k) ==
    /\ pl[k].pc = "create_message_log"
    /\ LET row == MessageLog_new(k, pl[k].cred, extract_fcm_message_id(pl[k].text),
                                 pl[k].text, pl[k].received_at)
       IN \E r \in StoreResults :
            IF r = "Ok" /\ insert_accepted(row)
            THEN /\ logs' = logs \cup {row}
                 /\ pl' = [pl EXCEPT ![k].pc = "cleanup_old_messages",
                                     ![k].inserted = TRUE,
                                     ![k].calls = Append(@, "create_message_log")]
            ELSE /\ logs' = logs
                 /\ pl' = [pl EXCEPT ![k].pc = "cleanup_old_messages",
                                     ![k].calls = Append(@, "create_message_log")]
    /\ UNCHANGED <<now, tasks, poolVars>>

\* repo.create_message_log(&log).await: Err returns from the task.
create_message_log(k) ==
    /\ pl[k].pc = "create_message_log"
    /\ LET row == MessageLog_new(k, pl[k].cred, extract_fcm_message_id(pl[k].text),
                                 pl[k].text, pl[k].received_at)
       IN \E r \in StoreResults :
            IF r = "Ok" /\ insert_accepted(row)
            THEN /\ logs' = logs \cup {row}
                 /\ pl' = [pl EXCEPT ![k].pc = "cleanup_old_messages",
                                     ![k].inserted = TRUE,
                                     ![k].calls = Append(@, "create_message_log")]
            ELSE /\ logs' = logs
                 /\ pl' = [pl EXCEPT ![k].pc = "insert_failed",
                                     ![k].calls = Append(@, "create_message_log")]
    /\ UNCHANGED <<now, tasks, poolVars>>

cleanup_old_messages_step_returns_on_error(k) ==
    /\ pl[k].pc = "cleanup_old_messages"
    /\ \E r \in StoreResults :
         IF r = "Ok"
         THEN \E keep \in cleanup_keeps(pl[k].cred, max_messages) :
                 /\ logs' = cleanup_old_messages(pl[k].cred, keep)
                 /\ pl' = [pl EXCEPT ![k].pc = "send",
                                     ![k].deleted = rows_affected(pl[k].cred, keep),
                                     ![k].calls = Append(@, "cleanup_old_messages")]
         ELSE /\ logs' = logs
              /\ pl' = [pl EXCEPT ![k].pc = "returned",
                                  ![k].calls = Append(@, "cleanup_old_messages")]
    /\ UNCHANGED <<now, tasks, poolVars>>

\* repo.cleanup_old_messages(&cred_id, max_messages).await: Err is logged;
\* either way the task goes on to webhook_client.send.
cleanup_old_messages_step(k) ==
    /\ pl[k].pc = "cleanup_old_messages"
    /\ \E r \in StoreResults :
         IF r = "Ok"
         THEN \E keep \in cleanup_keeps(pl[k].cred, max_messages) :
                 /\ logs' = cleanup_old_messages(pl[k].cred, keep)
                 /\ pl' = [pl EXCEPT ![k].pc = "send",
                                     ![k].deleted = rows_affected(pl[k].cred, keep),
                                     ![k].calls = Append(@, "cleanup_old_messages")]
         ELSE /\ logs' = logs
              /\ pl' = [pl EXCEPT ![k].pc = "send",
                                  ![k].calls = Append(@, "cleanup_old_messages")]
    /\ UNCHANGED <<now, tasks, poolVars>>

\* ------------------------------------------------------- WebhookClient::send
\* Err(reqwest::Error) of send_once.
TransportError == -2
Statuses == {200, 299, 300, 500}
Outcomes == Statuses \cup {TransportError}

\* status >= 200 && status < 300
is_success(status) == status >= 200 /\ status < 300

\* while attempt <= self.max_retries
loop_condition(attempt) == attempt <= webhook_max_retries

\* attempt += 1 and the loop test: another iteration, or the code after the loop.
next_attempt(p) ==
    [p EXCEPT !.attempt = @ + 1,
              !.pc = IF loop_condition(p.attempt + 1) THEN "send" ELSE "exhausted"]

\* WebhookClient::new: base_delay_ms: 1000
base_delay_ms == 1000

webhook_delay_linear(attempt) == base_delay_ms * attempt

\* let delay = self.base_delay_ms * 2u64.pow(attempt - 1)
webhook_delay(attempt) == base_delay_ms * pow2(attempt - 1)

\* if attempt > 0 { ...; tokio::time::sleep(Duration::from_millis(delay)) }
slept(p) ==
    IF p.attempt > 0
    THEN [p EXCEPT !.sleeps = Append(@, webhook_delay(p.attempt))]
    ELSE p

\* One loop iteration up to the result of send_once (after the backoff sleep
\* when attempt > 0): the POST is issued and answered with outcome o.
\* outs (history): the outcomes of the POSTs of this send, in order; the
\* iteration with attempt = 0 is the first of a call of send.
send_once(k, o) ==
    /\ pl[k].pc = "send"
    /\ LET p == [slept(pl[k]) EXCEPT
                   !.calls = IF pl[k].attempt = 0 THEN Append(@, "send") ELSE @]
       IN pl' = [pl EXCEPT ![k] =
                   IF o = TransportError
                   THEN next_attempt([p EXCEPT !.outs = Append(@, o),
                                               !.last_error = <<"error">>])
                   ELSE [p EXCEPT !.outs = Append(@, o), !.status = o,
                                  !.pc = "update"]]
    /\ UNCHANGED <<now, logs, tasks, poolVars>>

update_error_propagated(r) == r

\* if let Err(e) = repo.update_message_webhook_status(..).await { error!(..) }:
\* an Err of the store update is logged and send goes on; the value send
\* returns after an update that ended with r.
update_error_logged(r) == "Ok"

\* The body of the response to a POST.
body == <<"body">>

\* format!("HTTP {}: {}", status, response)
http_error(status) == <<"HTTP ", status, ": ">> \o body

final_error_counting_attempts(last_error) ==
    <<"All ", webhook_max_retries + 1, " retries failed. Last error: ">> \o last_error

\* format!("All {} retries failed. Last error: {}", self.max_retries, last_error)
final_error(last_error) ==
    <<"All ", webhook_max_retries, " retries failed. Last error: ">> \o last_error

return_on_success_never(p) == next_attempt(p)

\* if status >= 200 && status < 300 { return Ok(()) } else last_error is set
\* and the next attempt follows.
return_on_success(p) ==
    IF is_success(p.status)
    THEN [p EXCEPT !.pc = "returned", !.result = update_error_logged(p.updated)]
    ELSE next_attempt([p EXCEPT !.last_error = http_error(p.status)])

\* repo.update_message_webhook_status(&log.id, status, &response).await, whose
\* Err is only logged, then the test of the status.
\* updated (history): the result of this send's latest store update;
\* writes (history): the status and the result of each store update of this
\* send, in order.
send_update(k) ==
    /\ pl[k].pc = "update"
    /\ \E r \in StoreResults :
         /\ logs' = IF r = "Ok"
                    THEN update_message_webhook_status(k, pl[k].status, body)
                    ELSE logs
         /\ pl' = [pl EXCEPT ![k] =
                     return_on_success([pl[k] EXCEPT
                         !.updated = r,
                         !.writes = Append(@, <<pl[k].status, r>>)])]
    /\ UNCHANGED <<now, tasks, poolVars>>

\* After the loop: status 0 and "All 3 retries failed. Last error: ..." are
\* written (Err only logged) and send returns Ok.
send_exhausted(k) ==
    /\ pl[k].pc = "exhausted"
    /\ \E r \in StoreResults :
         /\ logs' = IF r = "Ok"
                    THEN update_message_webhook_status(k, 0,
                                                       final_error(pl[k].last_error))
                    ELSE logs
         /\ pl' = [pl EXCEPT ![k].status = 0, ![k].updated = r,
                             ![k].writes = Append(@, <<0, r>>),
                             ![k].pc = "returned",
                             ![k].result = update_error_logged(r)]
    /\ UNCHANGED <<now, tasks, poolVars>>

\* DELETE /api/credentials/{id}/messages: clear_credential_messages.
clear_messages(c) ==
    /\ logs' = clear_credential_messages(c)
    /\ UNCHANGED <<now, pl, tasks, poolVars>>

\* One second passes.
Tick ==
    /\ now < MaxTime
    /\ now' = now + 1
    /\ UNCHANGED <<pl, logs, tasks, poolVars>>

\* ---------------------------------------------------------- specification
\* The server starts on a database that holds NumCreds credentials with any
\* flags, an empty pool and no request in progress.
InitBoot ==
    /\ \E f \in [CredIds -> BOOLEAN \X BOOLEAN] :
         creds = [c \in CredIds |-> StoredCredential(f[c][1], f[c][2])]
    /\ topics = [c \in CredIds |-> {}]
    /\ workers = [c \in CredIds |-> None]
    /\ tasks = <<>>
    /\ call = [p \in Callers |-> Idle]
    /\ boot = [pc |-> "list", todo |-> <<>>]
    /\ sd = [pc |-> "idle", todo |-> {}, h |-> None]
    /\ lastOp = [c \in CredIds |-> "none"]
    /\ lastOk = [c \in CredIds |-> "none"]
    /\ ncalls = 0
    /\ now = 0
    /\ pl = <<>>
    /\ logs = {}

NextBoot ==
    \/ start_all_list
    \/ start_all_check
    \/ start_all_insert
    \/ \E t \in TaskIds : run_top(t)
    \/ \E t \in TaskIds : listener_ok(t)
    \/ \E t \in TaskIds : tasks[t].retry_count < MaxReconnects /\ listener_err(t)
    \/ \E t \in TaskIds : backoff_elapsed(t)

\* Server start: main calls start_all_active before it serves any request.
SpecBoot == InitBoot /\ [][NextBoot]_vars

\* The server is serving: start_all_active returned having found no runnable
\* credential, the pool is empty and no request is in progress.
InitPool ==
    /\ creds = [c \in CredIds |-> StoredCredential(TRUE, TRUE)]
    /\ topics = [c \in CredIds |-> {}]
    /\ workers = [c \in CredIds |-> None]
    /\ tasks = <<>>
    /\ call = [p \in Callers |-> Idle]
    /\ boot = [pc |-> "done", todo |-> <<>>]
    /\ sd = [pc |-> "idle", todo |-> {}, h |-> None]
    /\ lastOp = [c \in CredIds |-> "none"]
    /\ lastOk = [c \in CredIds |-> "none"]
    /\ ncalls = 0
    /\ now = 0
    /\ pl = <<>>
    /\ logs = {}

NextPool ==
    \/ \E p \in Callers, c \in CredIds, op \in {"start", "stop", "restart"} : Invoke(p, op, c)
    \/ \E p \in Callers : start_worker_check(p)
    \/ \E p \in Callers : start_worker_insert(p)
    \/ \E p \in Callers : stop_worker_remove(p)
    \/ \E p \in Callers : stop_worker_join(p)
    \/ \E p \in Callers : stop_worker_timeout(p)
    \/ \E t \in TaskIds : run_top(t)
    \/ \E t \in TaskIds : listener_ok(t)
    \/ \E t \in TaskIds : tasks[t].retry_count < MaxReconnects /\ listener_err(t)
    \/ \E t \in TaskIds : backoff_elapsed(t)
    \/ \E t \in TaskIds : backoff_shutdown(t)

\* Concurrent start_worker, stop_worker and restart_worker calls on the pool.
SpecPool == InitPool /\ [][NextPool]_vars

\* Credential 1 is runnable and start_all_active has started its Worker; the
\* other credentials are suspended.
InitPipe ==
    /\ creds = [c \in CredIds |-> StoredCredential(TRUE, c # 1)]
    /\ topics = [c \in CredIds |-> {}]
    /\ workers = [c \in CredIds |-> IF c = 1 THEN 1 ELSE None]
    /\ tasks = <<NewWorker(1)>>
    /\ call = [p \in Callers |-> Idle]
    /\ boot = [pc |-> "done", todo |-> <<>>]
    /\ sd = [pc |-> "idle", todo |-> {}, h |-> None]
    /\ lastOp = [c \in CredIds |-> IF c = 1 THEN "startOk" ELSE "none"]
    /\ lastOk = [c \in CredIds |-> IF c = 1 THEN "start" ELSE "none"]
    /\ ncalls = 0
    /\ now = 0
    /\ pl = <<>>
    /\ logs = {}

NextPipe ==
    \/ \E t \in TaskIds : run_top(t)
    \/ \E t \in TaskIds : tasks[t].retry_count < MaxReconnects /\ listener_err(t)
    \/ \E t \in TaskIds : backoff_elapsed(t)
    \/ \E t \in TaskIds, text \in Payloads : on_data_message(t, text)
    \/ \E k \in PipeIds : check_fcm(k)
    \/ \E k \in PipeIds : is_duplicate_read(k)
    \/ \E k \in PipeIds : is_duplicate_write(k)
    \/ \E k \in PipeIds : create_message_log(k)
    \/ \E k \in PipeIds : cleanup_old_messages_step(k)
    \/ \E k \in PipeIds : send_once(k, 200)
    \/ \E k \in PipeIds : send_update(k)
    \/ Tick

\* A Worker receiving payloads, its connection dropping and being restored;
\* the webhook endpoint answers every POST with 200.
SpecPipe == InitPipe /\ [][NextPipe]_vars

NextShutdown ==
    \/ \E t \in TaskIds : run_top(t)
    \/ \E t \in TaskIds : listener_ok(t)
    \/ \E t \in TaskIds : tasks[t].retry_count < MaxReconnects /\ listener_err(t)
    \/ \E t \in TaskIds : backoff_elapsed(t)
    \/ \E t \in TaskIds : backoff_shutdown(t)
    \/ shutdown_all_drain
    \/ shutdown_all_signal
    \/ shutdown_all_join
    \/ shutdown_all_timeout
    \/ shutdown_all_return
    \/ \E t \in TaskIds, text \in Payloads :
          Len(pl) < MaxShutdownPayloads /\ on_data_message(t, text)
    \/ \E k \in PipeIds : check_fcm(k)
    \/ \E k \in PipeIds : is_duplicate_read(k)
    \/ \E k \in PipeIds : is_duplicate_write(k)
    \/ \E k \in PipeIds : create_message_log(k)
    \/ \E k \in PipeIds : cleanup_old_messages_step(k)
    \/ \E k \in PipeIds : send_once(k, 200)
    \/ \E k \in PipeIds : send_update(k)

\* The same Worker while shutdown_signal runs shutdown_all.
SpecShutdown == InitPipe /\ [][NextShutdown]_vars

\* The Worker of credential 1 listens and the task of its first payload has
\* inserted its row and reached webhook_client.send.
InitSend ==
    /\ creds = [c \in CredIds |-> StoredCredential(TRUE, c # 1)]
    /\ topics = [c \in CredIds |-> {}]
    /\ workers = [c \in CredIds |-> IF c = 1 THEN 1 ELSE None]
    /\ \E text \in Payloads :
         /\ tasks = <<[NewWorker(1) EXCEPT
                         !.st = "listening",
                         !.dedup_cache = {[hash |-> hash_content(text), at |-> 0]}]>>
         /\ pl = <<[w |-> 1, cred |-> 1, text |-> text, pc |-> "send",
                    url |-> http \o <<"h">>,
                    instant |-> 0, received_at |-> 0, attempt |-> 0,
                    status |-> Null, fail_open |-> FALSE, outs |-> <<>>,
                    updated |-> "none", late |-> FALSE,
                    last_error |-> <<>>, writes |-> <<>>, result |-> "none",
                    deleted |-> 0, inserted |-> TRUE, sleeps |-> <<>>,
                    calls |-> <<"create_message_log", "cleanup_old_messages">>]>>
         /\ logs = {MessageLog_new(1, 1, extract_fcm_message_id(text), text, 0)}
    /\ call = [p \in Callers |-> Idle]
    /\ boot = [pc |-> "done", todo |-> <<>>]
    /\ sd = [pc |-> "idle", todo |-> {}, h |-> None]
    /\ lastOp = [c \in CredIds |-> IF c = 1 THEN "startOk" ELSE "none"]
    /\ lastOk = [c \in CredIds |-> IF c = 1 THEN "start" ELSE "none"]
    /\ ncalls = 0
    /\ now = 0

NextSend ==
    \/ \E k \in PipeIds, o \in Outcomes : send_once(k, o)
    \/ \E k \in PipeIds : send_update(k)
    \/ \E k \in PipeIds : send_exhausted(k)
    \/ \E c \in CredIds : clear_messages(c)

\* One webhook delivery against any endpoint behaviour and any store faults,
\* with the credential's messages cleared at any moment.
SpecSend == InitSend /\ [][NextSend]_vars

\* start_all_active has started a Worker for every credential (all runnable).
InitLive ==
    /\ creds = [c \in CredIds |-> StoredCredential(TRUE, FALSE)]
    /\ topics = [c \in CredIds |-> {}]
    /\ workers = [c \in CredIds |-> c]
    /\ tasks = [c \in CredIds |-> NewWorker(c)]
    /\ call = [p \in Callers |-> Idle]
    /\ boot = [pc |-> "done", todo |-> <<>>]
    /\ sd = [pc |-> "idle", todo |-> {}, h |-> None]
    /\ lastOp = [c \in CredIds |-> "startOk"]
    /\ lastOk = [c \in CredIds |-> "start"]
    /\ ncalls = 0
    /\ now = 0
    /\ pl = <<>>
    /\ logs = {}

NextLive ==
    \/ \E c \in CredIds : Invoke(1, "stop", c)
    \/ \E p \in Callers : stop_worker_remove(p)
    \/ \E p \in Callers : stop_worker_join(p)
    \/ \E p \in Callers : stop_worker_timeout(p)
    \/ shutdown_all_drain
    \/ shutdown_all_signal
    \/ shutdown_all_join
    \/ shutdown_all_timeout
    \/ shutdown_all_return
    \/ \E t \in TaskIds : run_top(t)
    \/ \E t \in TaskIds : listener_ok(t)

\* The scheduler runs a ready stop_worker or shutdown_all (the pool's lock is
\* held only for a map access) and their timers fire.  Nothing is assumed of
\* the Worker tasks: a Worker may stay in start_listening forever.
FairLive ==
    /\ \A p \in Callers : WF_vars(stop_worker_remove(p))
    /\ \A p \in Callers : WF_vars(stop_worker_timeout(p))
    /\ WF_vars(shutdown_all_signal)
    /\ WF_vars(shutdown_all_timeout)
    /\ WF_vars(shutdown_all_return)

\* One client's stop_worker calls, one after the other, and shutdown_all on a
\* pool of running Workers whose listeners do not fail.
SpecLive == InitLive /\ [][NextLive]_vars /\ FairLive

NextReconnect ==
    \/ \E t \in TaskIds : run_top(t)
    \/ \E t \in TaskIds : listener_err(t)
    \/ \E t \in TaskIds : backoff_elapsed(t)

\* Workers whose every listener attempt fails, with no stop or shutdown.
SpecReconnect == InitLive /\ [][NextReconnect]_vars

\* The server runs with one credential (id 1: registered, active, not
\* suspended, topic t1, one logged message) whose Worker was started at boot;
\* the other ids were never handed out.
InitApi ==
    /\ creds = [c \in CredIds |-> IF c = 1 THEN StoredCredential(TRUE, FALSE) ELSE NoRow]
    /\ topics = [c \in CredIds |-> IF c = 1 THEN Topics ELSE {}]
    /\ workers = [c \in CredIds |-> IF c = 1 THEN 1 ELSE None]
    /\ tasks = <<NewWorker(1)>>
    /\ call = [p \in Callers |-> Idle]
    /\ boot = [pc |-> "done", todo |-> <<>>]
    /\ sd = [pc |-> "idle", todo |-> {}, h |-> None]
    /\ lastOp = [c \in CredIds |-> IF c = 1 THEN "startOk" ELSE "none"]
    /\ lastOk = [c \in CredIds |-> IF c = 1 THEN "start" ELSE "none"]
    /\ ncalls = 0
    /\ now = 0
    /\ pl = <<>>
    /\ logs = {MessageLog_new(1, 1, None, <<0, 1>>, 0)}

NextValidate ==
    \/ \E req \in CreateRequests : Handle(1, "create", None, req)
    \/ \E c \in CredIds, req \in UpdateRequests : Handle(1, "update", c, req)
    \/ \E p \in Callers : create_credential(p)
    \/ \E p \in Callers : set_credential_topics_delete(p, "Ok")
    \/ \E p \in Callers : set_credential_topics_insert(p, "Ok")
    \/ \E p \in Callers : update_credential(p)
    \/ \E p \in Callers : update_credential_store(p)
    \/ \E p \in Callers : update_credential_get(p)
    \/ \E p \in Callers : update_credential_is_running(p)
    \/ \E p \in Callers : stop_worker_remove(p)
    \/ \E p \in Callers : stop_worker_join(p)
    \/ \E p \in Callers : stop_worker_timeout(p)
    \/ \E p \in Callers : start_worker_check(p)
    \/ \E p \in Callers : start_worker_insert(p)
    \/ \E t \in TaskIds : run_top(t)

\* One client's create and update requests with any body, one after the
\* other, and the Workers the updates restart; set_credential_topics'
\* statements succeed.
SpecValidate == InitApi /\ [][NextValidate]_vars

NextSuspend ==
    \/ \E p \in Callers, c \in CredIds : Handle(p, "suspend", c, NoBody)
    \/ \E p \in Callers, c \in CredIds : Handle(p, "unsuspend", c, NoBody)
    \/ \E p \in Callers, c \in CredIds : Handle(p, "start_listener", c, NoBody)
    \/ \E p \in Callers : get_credential_or_not_found(p)
    \/ \E p \in Callers : suspend_credential_store(p)
    \/ \E p \in Callers : unsuspend_credential_store(p)
    \/ \E p \in Callers : start_listener(p)
    \/ \E p \in Callers : stop_worker_remove(p)
    \/ \E p \in Callers : stop_worker_join(p)
    \/ \E p \in Callers : stop_worker_timeout(p)
    \/ \E p \in Callers : start_worker_check(p)
    \/ \E p \in Callers : start_worker_insert(p)
    \/ \E t \in TaskIds : run_top(t)

\* Concurrent suspend, unsuspend and start requests.
SpecSuspend == InitApi /\ [][NextSuspend]_vars

NextDelete ==
    \/ \E p \in Callers, c \in CredIds : Handle(p, "delete", c, NoBody)
    \/ \E p \in Callers, c \in CredIds : Handle(p, "start_listener", c, NoBody)
    \/ \E p \in Callers : get_credential_or_not_found(p)
    \/ \E p \in Callers : delete_credential_store(p)
    \/ \E p \in Callers : start_listener(p)
    \/ \E p \in Callers : stop_worker_remove(p)
    \/ \E p \in Callers : stop_worker_join(p)
    \/ \E p \in Callers : stop_worker_timeout(p)
    \/ \E p \in Callers : start_worker_check(p)
    \/ \E p \in Callers : start_worker_insert(p)
    \/ \E t \in TaskIds : run_top(t)

\* Concurrent delete and start requests.
SpecDelete == InitApi /\ [][NextDelete]_vars

NextCreate ==
    \/ \E p \in Callers, req \in CreateRequests : Handle(p, "create", None, req)
    \/ \E p \in Callers, c \in CredIds : Handle(p, "start_listener", c, NoBody)
    \/ \E p \in Callers : create_credential(p)
    \/ \E p \in Callers : set_credential_topics_delete(p, "Ok")
    \/ \E p \in Callers : set_credential_topics_insert(p, "Ok")
    \/ \E p \in Callers : start_listener(p)
    \/ \E p \in Callers : start_worker_check(p)
    \/ \E p \in Callers : start_worker_insert(p)
    \/ \E t \in TaskIds : run_top(t)
    \/ \E t \in TaskIds : register_ok(t)
    \/ \E t \in TaskIds : register_err(t)
    \/ \E t \in TaskIds : save_registration(t)
    \/ \E t \in TaskIds : backoff_elapsed(t)

\* Concurrent create and start requests, and the Workers they start, whose
\* registration or store update may fail.
SpecCreate == InitApi /\ [][NextCreate]_vars

\* The Worker of credential 1 listens, the task of its first payload, which
\* carries an fcmMessageId, has inserted its row, and a second payload with
\* an fcmMessageId has just been handed to the callback.
InitDedup ==
    /\ creds = [c \in CredIds |-> StoredCredential(TRUE, c # 1)]
    /\ topics = [c \in CredIds |-> {}]
    /\ workers = [c \in CredIds |-> IF c = 1 THEN 1 ELSE None]
    /\ sd = [pc |-> "idle", todo |-> {}, h |-> None]
    /\ \E text \in Payloads :
         /\ extract_fcm_message_id(text) # None
         /\ tasks = <<[NewWorker(1) EXCEPT
                         !.st = "listening",
                         !.dedup_cache = {[hash |-> hash_content(text), at |-> 0]}]>>
         /\ \E later \in Payloads :
              /\ extract_fcm_message_id(later) # None
              /\ pl = <<[NewPayloadTask(1, text) EXCEPT !.pc = "cleanup_old_messages",
                                                         !.inserted = TRUE,
                                                         !.calls = <<"create_message_log">>],
                        NewPayloadTask(1, later)>>
         /\ logs = {MessageLog_new(1, 1, extract_fcm_message_id(text), text, 0)}
    /\ call = [p \in Callers |-> Idle]
    /\ boot = [pc |-> "done", todo |-> <<>>]
    /\ lastOp = [c \in CredIds |-> IF c = 1 THEN "startOk" ELSE "none"]
    /\ lastOk = [c \in CredIds |-> IF c = 1 THEN "start" ELSE "none"]
    /\ ncalls = 0
    /\ now = 0

NextDedup ==
    \/ \E k \in PipeIds : check_fcm(k)
    \/ \E k \in PipeIds : is_duplicate_read(k)
    \/ \E k \in PipeIds : is_duplicate_write(k)
    \/ \E k \in PipeIds : create_message_log(k)
    \/ \E k \in PipeIds : cleanup_old_messages_step(k)
    \/ \E k \in PipeIds : send_once(k, 200)
    \/ \E k \in PipeIds : send_update(k)
    \/ \E c \in CredIds : clear_messages(c)
    \/ Tick

\* A payload with an fcmMessageId delivered after a first one was logged,
\* with any store faults, the credential's messages cleared at any moment
\* and a webhook endpoint that answers 200.
SpecDedup == InitDedup /\ [][NextDedup]_vars

\* Rows logged before: two of credential 1 and one of credential 2 (their
\* ids are below the ids of the payload tasks).
OldRows ==
    {MessageLog_new(0 - 1, 1, None, <<0, 1>>, 0),
     MessageLog_new(0 - 2, 1, None, <<0, 1>>, 0),
     MessageLog_new(0 - 3, 2, None, <<0, 1>>, 0)}

\* The Worker of credential 1 listens on a table that holds any of the rows
\* logged before, and two distinct payloads without fcmMessageId have just
\* been handed to its callback.
InitCleanup ==
    /\ creds = [c \in CredIds |-> StoredCredential(TRUE, c # 1)]
    /\ topics = [c \in CredIds |-> {}]
    /\ workers = [c \in CredIds |-> IF c = 1 THEN 1 ELSE None]
    /\ sd = [pc |-> "idle", todo |-> {}, h |-> None]
    /\ tasks = <<[NewWorker(1) EXCEPT !.st = "listening"]>>
    /\ \E a, b \in Payloads :
         /\ extract_fcm_message_id(a) = None
         /\ extract_fcm_message_id(b) = None
         /\ a # b
         /\ pl = <<NewPayloadTask(1, a), NewPayloadTask(1, b)>>
    /\ logs \in SUBSET OldRows
    /\ call = [p \in Callers |-> Idle]
    /\ boot = [pc |-> "done", todo |-> <<>>]
    /\ lastOp = [c \in CredIds |-> IF c = 1 THEN "startOk" ELSE "none"]
    /\ lastOk = [c \in CredIds |-> IF c = 1 THEN "start" ELSE "none"]
    /\ ncalls = 0
    /\ now = 0

NextCleanup ==
    \/ \E k \in PipeIds : is_duplicate_read(k)
    \/ \E k \in PipeIds : is_duplicate_write(k)
    \/ \E k \in PipeIds : create_message_log(k)
    \/ \E k \in PipeIds : cleanup_old_messages_step(k)
    \/ Tick

\* Two payload tasks of one Worker up to their cleanup_old_messages, with any
\* store faults.
SpecCleanup == InitCleanup /\ [][NextCleanup]_vars

NextTopics ==
    \/ \E p \in Callers, c \in CredIds, req \in UpdateRequests :
          req.topics # {} /\ req.webhook_url = {} /\ Handle(p, "update", c, req)
    \/ \E p \in Callers : update_credential(p)
    \/ \E p \in Callers : update_credential_store(p)
    \/ \E p \in Callers, r \in StoreResults : set_credential_topics_delete(p, r)
    \/ \E p \in Callers, r \in StoreResults : set_credential_topics_insert(p, r)
    \/ \E p \in Callers : update_credential_get(p)
    \/ \E p \in Callers : update_credential_is_running(p)
    \/ \E p \in Callers : stop_worker_remove(p)
    \/ \E p \in Callers : stop_worker_join(p)
    \/ \E p \in Callers : stop_worker_timeout(p)
    \/ \E p \in Callers : start_worker_check(p)
    \/ \E p \in Callers : start_worker_insert(p)
    \/ \E t \in TaskIds : run_top(t)

\* Concurrent update requests that give topics, with any faults of the
\* statements of set_credential_topics, and the Workers the updates restart.
SpecTopics == InitApi /\ [][NextTopics]_vars

\* The server runs with one credential (id 1) that was created and never
\* started: no registration material, no topics, no Worker, no message.
InitRegistration ==
    /\ creds = [c \in CredIds |-> IF c = 1 THEN Credential_new(http \o <<"h">>) ELSE NoRow]
    /\ topics = [c \in CredIds |-> {}]
    /\ workers = [c \in CredIds |-> None]
    /\ tasks = <<>>
    /\ call = [p \in Callers |-> Idle]
    /\ boot = [pc |-> "done", todo |-> <<>>]
    /\ sd = [pc |-> "idle", todo |-> {}, h |-> None]
    /\ lastOp = [c \in CredIds |-> "none"]
    /\ lastOk = [c \in CredIds |-> "none"]
    /\ ncalls = 0
    /\ now = 0
    /\ pl = <<>>
    /\ logs = {}

\* The bodies of the requests: a create with an accepted URL and no topics,
\* an update of nothing or of is_active.
RegistrationCreate ==
    [webhook_url |-> {https \o <<"h">>}, is_active |-> {}, topics |-> {{}}]

RegistrationUpdates ==
    {req \in UpdateRequests : req.webhook_url = {} /\ req.topics = {}}

NextRegistration ==
    \/ \E t \in TaskIds : run_top(t)
    \/ \E t \in TaskIds : register_ok(t)
    \/ \E t \in TaskIds : register_err(t)
    \/ \E t \in TaskIds : save_registration(t)
    \/ \E t \in TaskIds : listener_ok(t)
    \/ Handle(1, "create", None, RegistrationCreate)
    \/ \E c \in CredIds : Handle(1, "start_listener", c, NoBody)
    \/ \E c \in CredIds, req \in RegistrationUpdates : Handle(2, "update", c, req)
    \/ \E c \in CredIds : Handle(2, "suspend", c, NoBody)
    \/ \E c \in CredIds : Handle(2, "unsuspend", c, NoBody)
    \/ \E p \in Callers : create_credential(p)
    \/ \E p \in Callers : update_credential(p)
    \/ \E p \in Callers : update_credential_store(p)
    \/ \E p \in Callers : update_credential_get(p)
    \/ \E p \in Callers : update_credential_is_running(p)
    \/ \E p \in Callers : get_credential_or_not_found(p)
    \/ \E p \in Callers : suspend_credential_store(p)
    \/ \E p \in Callers : unsuspend_credential_store(p)
    \/ \E p \in Callers : start_listener(p)
    \/ \E p \in Callers : stop_worker_remove(p)
    \/ \E p \in Callers : stop_worker_join(p)
    \/ \E p \in Callers : stop_worker_timeout(p)
    \/ \E p \in Callers : start_worker_check(p)
    \/ \E p \in Callers : start_worker_insert(p)

\* One client creates and starts credentials while another updates, suspends
\* and unsuspends them, and the Workers these requests start
\* register and write their registration to the store, listen and exit (a Worker
\* whose attempt failed is followed up to its backoff).
SpecRegistration == InitRegistration /\ [][NextRegistration]_vars

NextStop ==
    \/ \E t \in TaskIds : run_top(t)
    \/ \E t \in TaskIds : listener_ok(t)
    \/ \E t \in TaskIds : tasks[t].retry_count < MaxReconnects /\ listener_err(t)
    \/ \E t \in TaskIds : backoff_elapsed(t)
    \/ \E t \in TaskIds : backoff_shutdown(t)
    \/ \E c \in CredIds : Invoke(1, "stop", c)
    \/ \E p \in Callers : stop_worker_remove(p)
    \/ \E p \in Callers : stop_worker_join(p)
    \/ \E p \in Callers : stop_worker_timeout(p)
    \/ shutdown_all_drain
    \/ shutdown_all_signal
    \/ shutdown_all_join
    \/ shutdown_all_timeout
    \/ shutdown_all_return

\* The runtime polls a Worker task that is ready: one at the top of its loop,
\* and one in the backoff select! whose shutdown channel holds true.  Nothing
\* is assumed of start_listening or of the sleep.
FairStop ==
    /\ WF_vars(run_top(1))
    /\ WF_vars(backoff_shutdown(1))

\* The running Worker of credential 1, whose listener returns, fails and
\* reconnects, stopped by a client or by shutdown_all.
SpecStop == InitApi /\ [][NextStop]_vars /\ FairStop

NextRegister ==
    \/ \E t \in TaskIds : run_top(t)
    \/ \E t \in TaskIds : register_ok(t)
    \/ \E t \in TaskIds : tasks[t].retry_count < MaxReconnects /\ register_err(t)
    \/ \E t \in TaskIds : save_registration(t)
    \/ \E t \in TaskIds : tasks[t].retry_count < MaxReconnects /\ listener_err(t)
    \/ \E t \in TaskIds : backoff_elapsed(t)
    \/ \E p \in Callers, c \in CredIds : Handle(p, "start_listener", c, NoBody)
    \/ \E p \in Callers : start_listener(p)
    \/ \E p \in Callers : start_worker_check(p)
    \/ \E p \in Callers : start_worker_insert(p)

\* A credential that was created and never started is started; its Worker
\* registers, writes the registration, listens, loses the connection and
\* reconnects, with failures at every step.
SpecRegister == InitRegistration /\ [][NextRegister]_vars

\* As InitCleanup, on an empty message table.
InitOrder == InitCleanup /\ logs = {}

NextOrder ==
    \/ \E k \in PipeIds : is_duplicate_read(k)
    \/ \E k \in PipeIds : is_duplicate_write(k)
    \/ \E k \in PipeIds : create_message_log(k)
    \/ \E k \in PipeIds : cleanup_old_messages_step(k)
    \/ \E k \in PipeIds : send_once(k, 200)
    \/ \E k \in PipeIds : send_update(k)
    \/ Tick

\* Two payload tasks of one Worker from the callback to the end of their
\* webhook delivery, with any store faults; the endpoint answers 200.
SpecOrder == InitOrder /\ [][NextOrder]_vars

NextLock ==
    \/ \E t \in TaskIds : run_top(t)
    \/ \E t \in TaskIds : listener_ok(t)
    \/ \E c \in CredIds, op \in {"stop", "restart"} : Invoke(1, op, c)
    \/ \E c \in CredIds : Invoke(2, "start", c)
    \/ \E p \in Callers : start_worker_check(p)
    \/ \E p \in Callers : start_worker_insert(p)
    \/ \E p \in Callers : stop_worker_remove(p)
    \/ \E p \in Callers : stop_worker_join(p)
    \/ \E p \in Callers : stop_worker_timeout(p)
    \/ shutdown_all_drain
    \/ shutdown_all_signal
    \/ shutdown_all_join
    \/ shutdown_all_timeout
    \/ shutdown_all_return

\* One client's stop_worker and restart_worker calls, another's start_worker
\* calls and shutdown_all, in progress together on a pool that holds the
\* running Worker of credential 1.
SpecLock == InitApi /\ [][NextLock]_vars

NextSnapshot ==
    \/ \E t \in TaskIds : run_top(t)
    \/ \E t \in TaskIds : listener_ok(t)
    \/ \E t \in TaskIds : on_data_message(t, <<0, 1>>)
    \/ \E p \in Callers, u \in {https \o <<"h">>} :
          Handle(p, "update", 1, [NoBody EXCEPT !.webhook_url = {u}])
    \/ \E p \in Callers : update_credential(p)
    \/ \E p \in Callers : update_credential_store(p)
    \/ \E p \in Callers : update_credential_get(p)
    \/ \E p \in Callers : update_credential_is_running(p)
    \/ \E p \in Callers : stop_worker_remove(p)
    \/ \E p \in Callers : stop_worker_join(p)
    \/ \E p \in Callers : stop_worker_timeout(p)
    \/ \E p \in Callers : start_worker_check(p)
    \/ \E p \in Callers : start_worker_insert(p)

\* Updates of the webhook_url of credential 1 while its Worker runs and
\* receives payloads.
SpecSnapshot == InitApi /\ [][NextSnapshot]_vars

\* As InitApi, the Worker of credential 1 having failed max_retries times: it
\* is at the top of its loop after its latest backoff sleep.
InitFinished ==
    /\ creds = [c \in CredIds |-> IF c = 1 THEN StoredCredential(TRUE, FALSE) ELSE NoRow]
    /\ topics = [c \in CredIds |-> IF c = 1 THEN Topics ELSE {}]
    /\ workers = [c \in CredIds |-> IF c = 1 THEN 1 ELSE None]
    /\ tasks = <<[NewWorker(1) EXCEPT !.retry_count = max_retries,
                                      !.delay = backoff_delay(max_retries),
                                      !.attempts = max_retries]>>
    /\ call = [p \in Callers |-> Idle]
    /\ boot = [pc |-> "done", todo |-> <<>>]
    /\ sd = [pc |-> "idle", todo |-> {}, h |-> None]
    /\ lastOp = [c \in CredIds |-> IF c = 1 THEN "startOk" ELSE "none"]
    /\ lastOk = [c \in CredIds |-> IF c = 1 THEN "start" ELSE "none"]
    /\ ncalls = 0
    /\ now = 0
    /\ pl = <<>>
    /\ logs = {}

NextFinished ==
    \/ \E t \in TaskIds : run_top(t)
    \/ \E t \in TaskIds : listener_ok(t)
    \/ \E t \in TaskIds : listener_err(t)
    \/ \E t \in TaskIds : backoff_shutdown(t)
    \/ \E op \in {"stop", "restart"} : Invoke(1, op, 1)
    \/ Invoke(2, "start", 1)
    \/ \E p \in Callers : start_worker_check(p)
    \/ \E p \in Callers : start_worker_insert(p)
    \/ \E p \in Callers : stop_worker_remove(p)
    \/ \E p \in Callers : stop_worker_join(p)
    \/ \E p \in Callers : stop_worker_timeout(p)
    \/ shutdown_all_drain
    \/ shutdown_all_signal
    \/ shutdown_all_join
    \/ shutdown_all_timeout
    \/ shutdown_all_return

\* A Worker that ends on its own, by a clean exit or by its last failed
\* retry, with start_worker, stop_worker, restart_worker and shutdown_all
\* called on its credential.
SpecFinished == InitFinished /\ [][NextFinished]_vars

\* ------------------------------------------------------------------ claims

\* C1 as stated: the workers map holds an entry for c exactly when the most
\* recent start_worker/stop_worker operation for c was a start_worker that
\* returned Ok. (A start_worker that returns WorkerAlreadyRunning is the most
\* recent operation and leaves the entry in place.)
PoolUniquenessLastOperation ==
    \A c \in CredIds : (workers[c] # None) <=> (lastOp[c] = "startOk")

\* C1 amended: the workers map holds an entry for c exactly when the most
\* recent operation for c that returned Ok was a start_worker, operations
\* being ordered by the moment they read or change the map.
PoolUniquenessLastOk ==
    \A c \in CredIds : (workers[c] # None) <=> (lastOk[c] = "start")

\* C1 witness: an entry is present after a failed start_worker followed a
\* successful one.
PoolUniquenessWitness ==
    \E c \in CredIds :
        workers[c] # None /\ lastOp[c] = "startErr" /\ lastOk[c] = "start"

\* C2: a start_worker call stores a handle only if no handle for that id
\* exists, so no stored handle is ever replaced by another start_worker and
\* only one of several concurrent calls for the same id can return Ok.
ConcurrentStartExclusive ==
    [][\A p \in Callers :
         (call[p].pc = "insert" /\ call'[p].pc # "insert")
             => workers[call[p].cred] = None]_vars

StopWorkerContract ==
    [][\A p \in Callers :
         LET c == call[p].cred
             h == workers[c]
         IN
         /\ (call[p].op = "stop" /\ call[p].pc = "remove" /\ call'[p].pc # "remove") =>
               IF h = None
               THEN /\ call'[p].pc = "idle"
                    /\ call'[p].res = "WorkerNotRunning"
                    /\ workers' = workers
                    /\ tasks' = tasks
               ELSE /\ call'[p].pc = "wait"
                    /\ call'[p].h = h
                    /\ workers'[c] = None
                    /\ \A d \in CredIds \ {c} : workers'[d] = workers[d]
                    /\ tasks'[h].shutdown
         /\ (call[p].op = "stop" /\ call[p].pc = "wait" /\ call'[p].pc # "wait") =>
               /\ call'[p].pc = "idle"
               /\ call'[p].res = "Ok"
               /\ tasks'[call[p].h].shutdown
               /\ workers'[c] # call[p].h
         /\ (call[p].pc = "idle" /\ call[p].res = "WorkerNotRunning") => call[p].h = None
      ]_vars

\* C10 witness: a stop_worker has returned Ok after its wait timed out: the
\* handle is out of the map, the signal is set and the task has not finished.
StopWorkerWitness ==
    \E p \in Callers :
        /\ call[p].pc = "idle"
        /\ call[p].res = "Ok"
        /\ call[p].h # None
        /\ ~is_finished(call[p].h)
        /\ tasks[call[p].h].shutdown
        /\ \A c \in CredIds : workers[c] # call[p].h

\* C4 (as claimed): retention bound.  In every reachable state the number of
\* message_logs rows of a credential is at most MAX_MESSAGES, also between a
\* payload task's insert and its cleanup_old_messages and with several payload
\* tasks of the credential running.
RetentionBound ==
    \A c \in CredIds : Cardinality(rows_of(c)) <= max_messages

\* C5 (as claimed): persistent dedup.  For a credential and a vendor message
\* id at most one message_logs row exists, for every interleaving of the
\* payload tasks.  Stated here for the runs in which no persistent check
\* returned Err, so that a violation is due to the interleaving alone.
UniqueFcmMessageId ==
    (\A k \in PipeIds : ~pl[k].fail_open)
    => \A r, s \in logs :
          /\ r.credential_id = s.credential_id
          /\ r.fcm_message_id # None
          /\ r.fcm_message_id = s.fcm_message_id
          => r = s

\* C6 (as claimed): in-memory dedup window.  Of two submissions of the same
\* bytes without fcmMessageId to the pipeline of one Worker, entering
\* is_duplicate at t1 < t2, the second is dropped by the DedupCache iff
\* t2 - t1 < TTL_SECONDS.
DedupWindow ==
    \A j, k \in PipeIds :
        /\ j # k
        /\ pl[j].w = pl[k].w
        /\ pl[j].text = pl[k].text
        /\ extract_fcm_message_id(pl[k].text) = None
        /\ pl[j].pc # "is_duplicate"
        /\ pl[k].pc # "is_duplicate"
        /\ pl[j].instant < pl[k].instant
        => (pl[k].pc = "dup_memory" <=> pl[k].instant - pl[j].instant < ttl_seconds)

\* C7 (as claimed): webhook outcome persistence.  When send returns, the row
\* with log.id has a non-null webhook_status, which is 0 iff no attempt
\* obtained a 2xx status and else is the 2xx status of the last attempt.
WebhookOutcomePersisted ==
    [][\A k \in PipeIds :
          pl[k].pc # "returned" /\ pl'[k].pc = "returned"
          => LET outs == pl'[k].outs
                 ok(i) == outs[i] >= 200 /\ outs[i] < 300
             IN \E r \in logs' :
                  /\ r.id = k
                  /\ r.webhook_status # Null
                  /\ r.webhook_status = 0 <=> \A i \in 1..Len(outs) : ~ok(i)
                  /\ (\E i \in 1..Len(outs) : ok(i))
                       => r.webhook_status = outs[Len(outs)]]_vars

\* C7 (amended): when send returns, if the store accepted its last
\* update_message_webhook_status call and the row with log.id still exists,
\* that row has a non-null webhook_status, which is 0 iff no attempt obtained
\* a 2xx status and else is the 2xx status of the last attempt.
WebhookOutcomePersistedWhenStored ==
    [][\A k \in PipeIds :
          /\ pl[k].pc # "returned"
          /\ pl'[k].pc = "returned"
          /\ pl'[k].updated = "Ok"
          => LET outs == pl'[k].outs
                 ok(i) == outs[i] >= 200 /\ outs[i] < 300
             IN \A r \in logs' :
                  r.id = k
                  => /\ r.webhook_status # Null
                     /\ r.webhook_status = 0 <=> \A i \in 1..Len(outs) : ~ok(i)
                     /\ (\E i \in 1..Len(outs) : ok(i))
                          => r.webhook_status = outs[Len(outs)]]_vars

\* C7 witness: a send returned after four failed attempts, one of them a
\* non-2xx status that had been stored, and its row now holds status 0.
WebhookOutcomeWitness ==
    \E k \in PipeIds :
        /\ pl[k].pc = "returned"
        /\ pl[k].updated = "Ok"
        /\ Len(pl[k].outs) = 4
        /\ \E i \in 1..4 : pl[k].outs[i] = 500
        /\ \E i \in 1..4 : pl[k].outs[i] = TransportError
        /\ \E r \in logs : r.id = k /\ r.webhook_status = 0

\* C8: retry count.  A send issues at most 4 POSTs, none after the first one
\* answered with a status in [200, 300), and it returns only after at least
\* one POST and either such a status or 4 POSTs: every non-2xx status and
\* every transport error is followed by another attempt while attempts remain.
RetryCount ==
    \A k \in PipeIds :
        LET outs == pl[k].outs
            n == Len(outs)
            ok(i) == outs[i] >= 200 /\ outs[i] < 300
        IN /\ n <= 4
           /\ \A i \in 1..(n - 1) : ~ok(i)
           /\ pl[k].pc \in {"send", "exhausted"} => \A i \in 1..n : ~ok(i)
           /\ pl[k].pc = "send" => n = pl[k].attempt /\ n <= 3
           /\ pl[k].pc = "returned" => n >= 1 /\ (ok(n) \/ n = 4)

\* C8 witness: a send returned after a transport error, then a non-2xx
\* status, then a 2xx status: three POSTs.
RetryCountWitness ==
    \E k \in PipeIds :
        /\ pl[k].pc = "returned"
        /\ pl[k].outs = <<TransportError, 500, 299>>

\* C9 (as claimed): graceful shutdown.  Once shutdown_all has returned,
\* active_count() is 0 and no webhook POST is issued for a payload delivered
\* to a callback after that point, also by a Worker whose blocking receive
\* outlived the 2 s wait.
NoPostAfterShutdown ==
    sd.pc = "done"
    => /\ active_count = 0
       /\ \A k \in PipeIds : pl[k].late => pl[k].outs = <<>>

\* C11: stop_worker and shutdown_all always terminate.  Every stop_worker call
\* returns and shutdown_all, once it has drained the map, returns, whatever
\* the Worker tasks do, also when all of them stay in start_listening forever.
StopAndShutdownTerminate ==
    /\ \A p \in Callers : (call[p].op = "stop") ~> (call[p].op = "idle")
    /\ (sd.pc # "idle") ~> (sd.pc = "done")

\* C11 witness: a stop_worker call that took a handle has returned Ok and
\* shutdown_all has returned while every Worker is still in start_listening.
StopAndShutdownWitness ==
    /\ sd.pc = "done"
    /\ \E p \in Callers : call[p].res = "Ok" /\ call[p].h # None
    /\ \A t \in TaskIds : tasks[t].st = "listening"

\* C12: restart_worker(cred), when no other pool call on cred.id is in
\* progress at any moment of it, returns Ok whether or not a handle was in the
\* map before, and at its return the map holds for cred.id the handle of the
\* Worker this call spawned for cred.
RestartContract ==
    [][\A p \in Callers :
          /\ call[p].op = "restart"
          /\ call'[p].op = "idle"
          /\ ~call[p].overlap
          => /\ call'[p].res = "Ok"
             /\ Len(tasks') = Len(tasks) + 1
             /\ workers'[call[p].cred] = Len(tasks')
             /\ tasks'[Len(tasks')] = NewWorker(call[p].cred)
             /\ \A c \in CredIds \ {call[p].cred} : workers'[c] = workers[c]]_vars

\* C12 witness: after a start_worker, a restart_worker found the handle,
\* stopped its Worker and returned Ok with the new handle in the map.
RestartWitness ==
    /\ ncalls = 2
    /\ \A q \in Callers : call[q].op = "idle"
    /\ \E p \in Callers :
         /\ call[p].res = "Ok"
         /\ call[p].h # None
         /\ workers[tasks[call[p].h].cred] = Len(tasks)
         /\ workers[tasks[call[p].h].cred] # call[p].h

\* C13: reconnect cap.  A Worker whose listener attempts all fail makes at
\* most 11 attempts; its task exits on the 11th failure (retry_count = 11)
\* while nothing changes in the pool, whose map keeps the handle; from then on
\* is_running(id) is false and active_count does not count the Worker.
ReconnectCap ==
    /\ \A t \in TaskIds :
          /\ tasks[t].attempts <= 11
          /\ tasks[t].st = "done"
              => /\ tasks[t].attempts = 11
                 /\ tasks[t].retry_count = 11
                 /\ workers[tasks[t].cred] = t
                 /\ ~is_running(tasks[t].cred)
    /\ active_count = Cardinality({t \in TaskIds : tasks[t].st # "done"})
    /\ \A c \in CredIds : lastOp[c] = "startOk"

\* C13 witness: one Worker has given up after 11 failed attempts and is not
\* counted, another is still counted.
ReconnectCapWitness ==
    /\ \E t \in TaskIds : tasks[t].st = "done" /\ tasks[t].attempts = 11
    /\ active_count = NumCreds - 1

\* C14: backoff monotonicity.  The sleep the Worker computes after failure
\* number retry_count is 5 s * 2^min(retry_count - 1, 6): it is never less
\* than the sleep before it and never more than 320 s.
BackoffMonotone ==
    [][\A t \in TaskIds :
          tasks'[t].st = "backoff" /\ tasks[t].st = "listening"
          => /\ tasks'[t].delay >= tasks[t].delay
             /\ tasks'[t].delay >= 5
             /\ tasks'[t].delay <= 320
             /\ LET k == tasks'[t].retry_count
                    e == IF k - 1 < 6 THEN k - 1 ELSE 6
                IN tasks'[t].delay = 5 * (2 ^ e)]_vars

\* C14 witness: a Worker backs off for 320 s after its 10th failure, after
\* having slept 320 s before.
BackoffMonotoneWitness ==
    \E t \in TaskIds :
        tasks[t].st = "backoff" /\ tasks[t].retry_count = 10 /\ tasks[t].delay = 320


\* C16: WebhookClient::send (and retry_message, which is send over the stored
\* payload) returns Ok for every outcome: a 2xx status, non-2xx statuses,
\* a transport error on every attempt, and an Err of the store update that
\* records the outcome; no step of a send changes the state of a Worker.
SendReturnsOk ==
    [][\A k \in PipeIds :
          /\ pl[k].pc # "returned" /\ pl'[k].pc = "returned"
               => pl'[k].result = "Ok"
          /\ pl[k].pc \in {"send", "update", "exhausted"} /\ pl'[k] # pl[k]
               => tasks' = tasks]_vars

\* C16 witness: a send has returned Ok after four transport errors and a
\* failed store update of the final record.
SendReturnsOkWitness ==
    \E k \in PipeIds :
        /\ pl[k].pc = "returned"
        /\ pl[k].result = "Ok"
        /\ pl[k].outs = <<TransportError, TransportError, TransportError, TransportError>>
        /\ pl[k].updated = "Err"

\* The statuses send passes to update_message_webhook_status, in order.
WrittenStatuses(p) == [i \in 1..Len(p.writes) |-> p.writes[i][1]]

\* The non-2xx statuses among the outcomes of the attempts, in order.
RECURSIVE ReceivedStatuses(_)
ReceivedStatuses(outs) ==
    IF outs = <<>> THEN <<>>
    ELSE IF Head(outs) = TransportError THEN ReceivedStatuses(Tail(outs))
    ELSE <<Head(outs)>> \o ReceivedStatuses(Tail(outs))

\* C17 (as claimed): exhausted retries.  When all 1 + MAX_RETRIES attempts
\* fail, the row's webhook_status holds each non-2xx status after it was
\* received, and when send returns the row holds status 0 and a response
\* beginning "All 3 retries failed. Last error:".
ExhaustedRetries ==
    [][\A k \in PipeIds :
          /\ pl[k].pc = "update" /\ pl'[k].pc # "update" /\ ~is_success(pl[k].status)
               => \E r \in logs' : r.id = k /\ r.webhook_status = pl[k].status
          /\ pl[k].pc = "exhausted" /\ pl'[k].pc = "returned"
               => \E r \in logs' :
                    /\ r.id = k
                    /\ r.webhook_status = 0
                    /\ SubSeq(r.webhook_response, 1, 3)
                         = <<"All ", 3, " retries failed. Last error: ">>]_vars

\* C17 (amended): when all 1 + MAX_RETRIES attempts fail, send passes to
\* update_message_webhook_status each non-2xx status received, in order, and
\* last status 0 with a response beginning "All 3 retries failed. Last
\* error:"; after each of these updates that the store accepts, the row with
\* log.id, if it still exists, holds the status (and the response) written.
ExhaustedRetriesWhenStored ==
    [][\A k \in PipeIds :
          /\ pl[k].pc = "update" /\ pl'[k].pc # "update" /\ ~is_success(pl[k].status)
             /\ pl'[k].updated = "Ok"
               => \A r \in logs' : r.id = k => r.webhook_status = pl[k].status
          /\ pl[k].pc = "exhausted" /\ pl'[k].pc = "returned"
               => /\ Len(pl'[k].outs) = 1 + 3
                  /\ WrittenStatuses(pl'[k]) = ReceivedStatuses(pl'[k].outs) \o <<0>>
                  /\ pl'[k].updated = "Ok"
                       => \A r \in logs' :
                            r.id = k
                            => /\ r.webhook_status = 0
                               /\ SubSeq(r.webhook_response, 1, 3)
                                    = <<"All ", 3, " retries failed. Last error: ">>]_vars

\* C17 witness: the webhook answered 500 four times, every store update was
\* accepted, and the row holds status 0 and the final response.
ExhaustedRetriesWitness ==
    \E k \in PipeIds :
        /\ pl[k].pc = "returned"
        /\ pl[k].outs = <<500, 500, 500, 500>>
        /\ pl[k].writes = <<<<500, "Ok">>, <<500, "Ok">>, <<500, "Ok">>,
                            <<500, "Ok">>, <<0, "Ok">>>>
        /\ \E r \in logs :
             /\ r.id = k
             /\ r.webhook_status = 0
             /\ r.webhook_response = final_error(http_error(500))


\* C15 (as claimed): validation.  A create or update request whose
\* webhook_url starts with neither "http://" nor "https://" fails with
\* BadRequest, and no credential row, topic, pool entry or Worker changes.
ValidationRejects ==
    [][\A p \in Callers :
          /\ call[p].op \in {"create", "update"}
          /\ call[p].pc = "begin"
          /\ call'[p].pc # "begin"
          /\ call[p].req.webhook_url # {}
          /\ \A u \in call[p].req.webhook_url :
               ~starts_with(u, http) /\ ~starts_with(u, https)
          => /\ call'[p].res = "BadRequest"
             /\ call'[p].pc = "idle"
             /\ UNCHANGED <<creds, topics, workers, tasks>>]_vars

\* C15 (amended): a create request, or an update request for the id of a
\* stored credential, whose webhook_url starts with neither "http://" nor
\* "https://" fails, and no credential row, topic, pool entry or Worker
\* changes: with BadRequest, or for an update whose lookup of the stored row
\* fails (a row that does not decode) with the store's error.
ValidationRejectsStored ==
    [][\A p \in Callers :
          /\ call[p].op \in {"create", "update"}
          /\ call[p].pc = "begin"
          /\ call'[p].pc # "begin"
          /\ call[p].op = "update" => creds[call[p].cred].exists
          /\ call[p].req.webhook_url # {}
          /\ \A u \in call[p].req.webhook_url :
               ~starts_with(u, http) /\ ~starts_with(u, https)
          => /\ \/ call'[p].res = "BadRequest"
                \/ /\ call'[p].res = "Database"
                   /\ call[p].op = "update"
                   /\ "Err" \in decode_results(creds[call[p].cred])
             /\ call'[p].pc = "idle"
             /\ UNCHANGED <<creds, topics, workers, tasks>>]_vars

\* C15 witness: a create was answered Ok and stored its row, then an update
\* of that row was answered BadRequest and left it as created.
ValidationWitness ==
    \E p \in Callers, c \in CredIds \ {1} :
        /\ ncalls = 2
        /\ call[p].was = "update" /\ call[p].res = "BadRequest"
        /\ creds[c] \in {Credential_new(u) : u \in Urls}
        /\ creds[1] = StoredCredential(TRUE, FALSE)
        /\ topics[1] = Topics
        /\ workers[1] = 1 /\ Len(tasks) = 1


\* C18: suspend stops the worker.  When the suspend handler, whose
\* stop_worker found a Worker of c in the pool, completes, is_running(c) is
\* false and the stored credential has is_suspended = true; and as long as a
\* credential is suspended, the listing start_all_runnable starts Workers
\* from does not contain it.
SuspendStopsWorker ==
    /\ [][\A p \in Callers, c \in CredIds :
            /\ call[p].op = "suspend"
            /\ call[p].cred = c
            /\ call[p].pc = "store"
            /\ call'[p].pc = "idle"
            /\ call[p].h # None
            => /\ ~(is_running(c))'
               /\ creds'[c].is_suspended]_vars
    /\ [](\A c \in CredIds :
            creds[c].exists /\ creds[c].is_suspended
            => \A i \in 1..Len(list_runnable_credentials) :
                 list_runnable_credentials[i] # c)


\* C19: deleting a credential stops its Worker first and cascades.  The row
\* of c is deleted only by a delete handler whose stop_worker(c) has returned,
\* and when the handler returns Ok there is no pool handle, no credential row,
\* no topic and no message_logs row for c.
DeleteStopsAndCascades ==
    [][\A c \in CredIds :
          /\ creds[c].exists /\ ~creds'[c].exists
               => \E p \in Callers :
                    call[p].op = "delete" /\ call[p].cred = c /\ call[p].pc = "store"
          /\ \A p \in Callers :
               /\ call[p].op = "delete"
               /\ call[p].cred = c
               /\ call[p].pc = "store"
               /\ call'[p].pc = "idle"
               => /\ workers'[c] = None
                  /\ ~creds'[c].exists
                  /\ topics'[c] = {}
                  /\ \A r \in logs' : r.credential_id # c]_vars


\* The row has none of the six registration fields.
NoRegistrationMaterial(row) ==
    /\ row.fcm_token = None /\ row.gcm_token = None /\ row.android_id = None
    /\ row.security_token = None /\ row.private_key_base64 = None
    /\ row.auth_secret_base64 = None

\* C20, the parts on creation and start: a created row has is_active = true,
\* is_suspended = false and no registration material; is_running(id) is false
\* when the row appears and no step of the create handler starts a worker;
\* when start_worker returns Ok, is_running(id) is true.
CreatedThenStarted(p, c) ==
    /\ ~creds[c].exists /\ creds'[c].exists
         => /\ creds'[c].is_active /\ ~creds'[c].is_suspended
            /\ NoRegistrationMaterial(creds'[c])
            /\ ~(is_running(c))'
    /\ call[p].op = "create" /\ call'[p] # call[p]
         => UNCHANGED <<workers, tasks>>
    /\ call[p].pc = "insert" /\ call[p].cred = c /\ call'[p].pc = "idle"
         => call'[p].res = "Ok" /\ (is_running(c))'

DroppedForGood(k) ==
    pl[k].pc = "dup_fcm"
    => /\ pl'[k] = pl[k]
       /\ pl[k].outs = <<>>
       /\ \A r \in logs : r.id # k

\* C21 (as claimed): sequential persistent dedup.  The pipeline of payload 1,
\* carrying fcmMessageId m, has completed its insert for credential c; every
\* later payload for c carrying m is dropped at the persistent check,
\* whatever the in-memory TTL: no second row, no cleanup, no webhook POST.
SequentialPersistentDedup ==
    [][\A k \in PipeIds \ {1} :
          /\ (/\ pl[k].cred = pl[1].cred
              /\ extract_fcm_message_id(pl[k].text) = extract_fcm_message_id(pl[1].text)
              /\ pl[k].pc = "check_fcm"
              /\ pl'[k].pc # "check_fcm")
             => pl'[k].pc = "dup_fcm"
          /\ DroppedForGood(k)]_vars

\* C21 (amended): a payload for c carrying m whose persistent check returns
\* Ok while a row with (c, m) is stored is dropped at that check, whatever
\* the in-memory TTL: no row, no cleanup, no webhook POST for it.
SequentialPersistentDedupWhenStored ==
    [][\A k \in PipeIds \ {1} :
          /\ (/\ pl[k].pc = "check_fcm"
              /\ pl'[k].pc # "check_fcm"
              /\ ~pl'[k].fail_open
              /\ \E r \in logs :
                   /\ r.credential_id = pl[k].cred
                   /\ r.fcm_message_id = extract_fcm_message_id(pl[k].text))
             => pl'[k].pc = "dup_fcm"
          /\ DroppedForGood(k)]_vars

\* C21 witness: past the in-memory TTL a payload with the fcmMessageId of
\* the first and another body was dropped at the persistent check; the first
\* payload's row is the only one.
SequentialPersistentDedupWitness ==
    \E k \in PipeIds \ {1} :
        /\ pl[k].pc = "dup_fcm"
        /\ extract_fcm_message_id(pl[k].text) = extract_fcm_message_id(pl[1].text)
        /\ pl[k].text # pl[1].text
        /\ now >= ttl_seconds
        /\ pl[1].pc = "returned"
        /\ \E r \in logs : logs = {r} /\ r.id = 1


\* C22: cleanup_old_messages(credential_id, keep_n), when it returns Ok,
\* leaves for that credential exactly min(keep_n, count) of its rows, none of
\* them older than a row it deleted, returns the number of rows it deleted
\* and leaves the rows of every other credential unchanged; a table that
\* holds more than MAX_MESSAGES rows of the credential is cut to MAX_MESSAGES.
CleanupOldContract ==
    [][\A k \in PipeIds :
          (/\ pl[k].pc = "cleanup_old_messages"
           /\ pl'[k].pc # "cleanup_old_messages"
           /\ pl'[k].deleted # Null)
          => LET cred == pl[k].cred
                 before == {r \in logs : r.credential_id = cred}
                 after == {r \in logs' : r.credential_id = cred}
                 count == Cardinality(before)
             IN /\ after \subseteq before
                /\ Cardinality(after) = IF max_messages < count
                                        THEN max_messages ELSE count
                /\ \A r \in after, d \in before \ after :
                     r.received_at >= d.received_at
                /\ pl'[k].deleted = count - Cardinality(after)
                /\ {r \in logs' : r.credential_id # cred}
                     = {r \in logs : r.credential_id # cred}]_vars

\* C22 witness: a cleanup_old_messages returned 2, having deleted the two
\* oldest of three rows of credential 1 and kept the row of credential 2.
CleanupOldWitness ==
    \E k \in PipeIds :
        /\ pl[k].deleted = 2
        /\ pl[k].pc = "send"
        /\ \E r \in logs : r.credential_id = 2
        /\ \E r \in logs : r.credential_id = 1 /\ r.received_at > 0
        /\ Cardinality({r \in logs : r.credential_id = 1}) = max_messages


\* C23: set_credential_topics replaces the topic set atomically.  Every
\* statement of a set_credential_topics call either leaves the stored topics
\* as they are or, completing the call with Ok, makes the credential's set
\* the complete new set, so that a concurrent get_credential_topics reads
\* the complete old or the complete new set and a call that fails part-way
\* leaves the old set.
SetTopicsAtomic ==
    [][\A p \in Callers :
          (/\ call[p].pc \in {"topics", "topics_insert"}
           /\ call'[p] # call[p])
          => \/ topics' = topics
             \/ /\ topics' = [topics EXCEPT ![call[p].cred] =
                                IF call[p].pc = "topics"
                                THEN unwrap(call[p].req.topics)
                                ELSE @ \cup unwrap(call[p].req.topics)]
                /\ call'[p].pc # "topics_insert"
                /\ call'[p].res # "Database"]_vars


\* C24: update(id, partial) sets exactly the fields present in partial to the
\* given values: after the UPDATE of a stored credential the row holds the
\* given webhook_url and the given is_active as a boolean that get decodes
\* and list_runnable selects on, the fields not given keep their values,
\* and is_suspended and the six registration fields are unchanged.
UpdateSetsGivenFields ==
    [][\A p \in Callers, c \in CredIds :
          (/\ call[p].op = "update"
           /\ call[p].cred = c
           /\ call[p].pc = "store"
           /\ call'[p].pc # "store"
           /\ creds[c].exists)
          => LET req == call[p].req
                 old == creds[c]
                 new == creds'[c]
                 listed == {list_runnable_credentials[i] :
                               i \in 1..Len(list_runnable_credentials)}
             IN /\ new.exists
                /\ new.webhook_url = IF req.webhook_url = {} THEN old.webhook_url
                                     ELSE unwrap(req.webhook_url)
                /\ new.is_active_text = ""
                /\ new.is_active = IF req.is_active = {} THEN old.is_active
                                   ELSE unwrap(req.is_active)
                /\ (c \in listed') <=> (new.is_active /\ ~new.is_suspended)
                /\ req.is_active = {TRUE} /\ ~old.is_suspended => (c \in listed')
                /\ new.is_suspended = old.is_suspended
                /\ new.fcm_token = old.fcm_token
                /\ new.gcm_token = old.gcm_token
                /\ new.android_id = old.android_id
                /\ new.security_token = old.security_token
                /\ new.private_key_base64 = old.private_key_base64
                /\ new.auth_secret_base64 = old.auth_secret_base64]_vars


\* The six registration columns of a row are all NULL or all set.
all_or_nothing(row) ==
    LET Fields == {row.fcm_token, row.gcm_token, row.android_id,
                   row.security_token, row.private_key_base64,
                   row.auth_secret_base64}
    IN  Fields = {None} \/ None \notin Fields

\* C25: in every reachable state of the store, each credential's
\* registration material (fcm_token, gcm_token, android_id, security_token,
\* private_key, auth_secret) is either all present or all absent, whatever
\* the order of create, update, update_registration, suspend and unsuspend.
RegistrationAllOrNothing ==
    \A c \in CredIds : creds[c].exists => all_or_nothing(creds[c])

\* C25 witness: a credential that was created without registration material
\* has since been updated or suspended, and its Worker has written the
\* registration.
RegistrationAllOrNothingWitness ==
    \E c \in CredIds :
        /\ creds[c].exists
        /\ creds[c].fcm_token # None
        /\ creds[c].is_suspended \/ creds[c].is_active_text # ""


\* C26: DedupCache.is_duplicate(content) returns true exactly when the map
\* holds an entry for the content's hash inserted less than TTL ago, and then
\* leaves the map as it is; otherwise it returns false with (hash, now)
\* stored, and the entries its eviction removed had all expired.
IsDuplicateContract ==
    [][\A k \in PipeIds :
          LET cache == tasks[pl[k].w].dedup_cache
              hash == hash_content(pl[k].text)
          IN
          /\ (pl[k].pc = "is_duplicate" /\ pl'[k].pc = "dup_memory")
             => (/\ cache_hit(cache, hash, pl'[k].instant)
                 /\ UNCHANGED tasks)
          /\ (pl[k].pc = "is_duplicate_write" /\ pl'[k].pc # "is_duplicate_write")
             => (/\ ~cache_hit(cache, hash, pl[k].instant)
                 /\ [hash |-> hash, at |-> pl[k].instant]
                       \in tasks'[pl[k].w].dedup_cache
                 /\ \A e \in cache \ tasks'[pl[k].w].dedup_cache :
                       duration_since(pl[k].instant, e.at) >= ttl_seconds)]_vars


\* C27: once its shutdown signal is true, a Worker at the top of its loop or
\* in the backoff sleep starts no further listener attempt and reaches
\* STOPPED, and a Worker blocked in start_listening starts no further attempt
\* after that call returns: it goes to STOPPED, through the backoff select!
\* at most.
ShutdownObserved ==
    /\ [][\A t \in TaskIds :
            (/\ tasks[t].shutdown
             /\ tasks[t].st \in {"top", "backoff", "listening"})
            => (/\ tasks'[t].attempts = tasks[t].attempts
                /\ tasks[t].st = "top" => tasks'[t].st \in {"top", "done"}
                /\ tasks[t].st = "backoff"
                      => tasks'[t].st \in {"backoff", "top", "done"}
                /\ tasks[t].st = "listening"
                      => tasks'[t].st \in {"listening", "backoff", "done"})]_vars
    /\ (tasks[1].shutdown /\ tasks[1].st \in {"top", "backoff"})
          ~> (tasks[1].st = "done")

\* C27 witness: a Worker that was signalled during its backoff sleep, after a
\* failed listener attempt, is STOPPED having made that one attempt only.
ShutdownObservedWitness ==
    \E t \in TaskIds :
        /\ tasks[t].shutdown
        /\ tasks[t].st = "done"
        /\ tasks[t].retry_count = 1
        /\ tasks[t].attempts = 1


\* C28: when start_listening returns without error the Worker goes to STOPPED
\* at once: retry_count is not incremented, no backoff sleep is begun, its
\* task is finished, and a STOPPED Worker never begins another attempt.
CleanExit ==
    [][\A t \in TaskIds :
          /\ listener_ok(t)
             => (/\ tasks'[t].st = "done"
                 /\ tasks'[t].retry_count = tasks[t].retry_count
                 /\ tasks'[t].delay = tasks[t].delay
                 /\ tasks'[t].attempts = tasks[t].attempts
                 /\ ~is_finished(t) /\ is_finished(t)')
          /\ tasks[t].st = "done"
             => (/\ tasks'[t].st = "done"
                 /\ tasks'[t].attempts = tasks[t].attempts
                 /\ tasks'[t].retry_count = tasks[t].retry_count)]_vars

\* C28 witness: a Worker that was never signalled is STOPPED after its second
\* listener attempt returned without error, its retry_count still the 1 of
\* the first attempt's failure.
CleanExitWitness ==
    \E t \in TaskIds :
        /\ tasks[t].st = "done"
        /\ ~tasks[t].shutdown
        /\ tasks[t].attempts = 2
        /\ tasks[t].retry_count = 1


\* The Worker's copy of the credential lacks one of fcm_token, private_key,
\* auth_secret.
lacks_registration(credential) ==
    \/ credential.fcm_token = None
    \/ credential.private_key_base64 = None
    \/ credential.auth_secret_base64 = None

\* C29: a listener attempt of a Worker whose credential snapshot lacks any of
\* fcm_token, private_key, auth_secret takes the register path, on which the
\* Worker listens only after update_registration has written the six fields
\* and the snapshot holds them; any other attempt takes the load path without
\* registering.  A snapshot that holds the registration keeps it, so after one
\* register-and-persist every later attempt of the Worker loads.
RegisterOrLoad ==
    [][\A t \in TaskIds :
          /\ (tasks[t].st = "top" /\ tasks'[t].st \notin {"top", "done"})
             => (tasks'[t].st = IF lacks_registration(tasks[t].credential)
                                THEN "registering" ELSE "listening")
          /\ (tasks[t].st # "listening" /\ tasks'[t].st = "listening")
             => (/\ ~lacks_registration(tasks'[t].credential)
                 /\ all_or_nothing(tasks'[t].credential)
                 /\ (tasks[t].st = "saving" /\ creds[tasks[t].cred].exists)
                       => creds'[tasks[t].cred] = Registered(creds[tasks[t].cred]))
          /\ ~lacks_registration(tasks[t].credential)
             => (/\ ~lacks_registration(tasks'[t].credential)
                 /\ tasks'[t].st \notin {"registering", "saving"})]_vars

\* C29 witness: a Worker that registered and persisted at its first attempt
\* and lost the connection listens again, having taken the load path.
RegisterOrLoadWitness ==
    \E t \in TaskIds :
        /\ tasks[t].st = "listening"
        /\ tasks[t].attempts = 2
        /\ tasks[t].retry_count = 1
        /\ creds[tasks[t].cred].fcm_token # None


\* C30: a payload task issues a webhook POST, and calls cleanup_old_messages,
\* only after its create_message_log returned Ok, which stored the payload's
\* row with webhook_status null; when create_message_log fails nothing is
\* stored and the task ends there: it makes no cleanup call and no POST.
PipelineOrdering ==
    [][\A k \in PipeIds :
          LET row == MessageLog_new(k, pl[k].cred,
                                    extract_fcm_message_id(pl[k].text),
                                    pl[k].text, pl[k].received_at)
          IN
          /\ pl'[k].outs # pl[k].outs => pl[k].inserted
          /\ pl[k].pc \in {"cleanup_old_messages", "send", "update"}
                => pl[k].inserted
          /\ (pl[k].pc = "create_message_log" /\ pl'[k].pc # "create_message_log")
             => IF pl'[k].inserted
                THEN /\ row \in logs'
                     /\ row.webhook_status = Null
                     /\ pl'[k].pc = "cleanup_old_messages"
                ELSE /\ logs' = logs
                     /\ pl'[k].pc = "insert_failed"
          /\ pl[k].pc = "insert_failed"
             => (/\ ~pl[k].inserted
                 /\ pl[k].outs = <<>>
                 /\ pl[k].deleted = Null
                 /\ pl'[k] = pl[k])]_vars

\* C30 witness: one payload's POST has been issued after its row was stored,
\* while the other payload's insert failed.
PipelineOrderingWitness ==
    \E j, k \in PipeIds :
        /\ pl[j].inserted
        /\ pl[j].outs = <<200>>
        /\ pl[k].pc = "insert_failed"


\* C31 (as claimed): a payload whose persistent check returned a store error
\* is not dropped: unless the in-memory check reports a duplicate, its row is
\* inserted and its webhook is sent, so its task never ends at a failed
\* insert.
FailOpenDelivers ==
    \A k \in PipeIds :
        pl[k].fail_open => pl[k].pc \notin {"dup_fcm", "insert_failed"}

\* C31 (amended): a payload whose persistent check returned a store error is
\* not dropped by that check: its task goes on to the in-memory check and,
\* unless that reports a duplicate, to create_message_log; when the insert
\* returns Ok the task goes on to cleanup_old_messages and to send, and when
\* the insert fails too the task ends without a webhook.
FailOpenContinues ==
    [][\A k \in PipeIds :
          /\ (pl[k].pc = "check_fcm" /\ pl'[k].fail_open)
                => pl'[k].pc = "is_duplicate"
          /\ (pl[k].fail_open /\ pl'[k].pc # pl[k].pc)
                => (/\ pl[k].pc = "is_duplicate"
                       => pl'[k].pc = IF cache_hit(tasks[pl[k].w].dedup_cache,
                                                   hash_content(pl[k].text), now)
                                      THEN "dup_memory" ELSE "is_duplicate_write"
                    /\ pl[k].pc = "is_duplicate_write"
                       => pl'[k].pc = "create_message_log"
                    /\ pl[k].pc = "create_message_log"
                       => pl'[k].pc = IF pl'[k].inserted
                                      THEN "cleanup_old_messages"
                                      ELSE "insert_failed"
                    /\ pl[k].pc = "cleanup_old_messages" => pl'[k].pc = "send"
                    /\ pl[k].pc \in {"dup_memory", "insert_failed"} => FALSE)
          /\ pl[k].fail_open => (pl'[k].fail_open /\ pl'[k].pc # "dup_fcm")]_vars

\* C31 witness: the webhook of a payload whose persistent check failed has
\* been sent, although a row with its fcmMessageId is stored.
FailOpenContinuesWitness ==
    \E k \in PipeIds :
        /\ pl[k].fail_open
        /\ pl[k].inserted
        /\ pl[k].outs = <<200>>
        /\ \E r \in logs : /\ r.id # k
                           /\ r.credential_id = pl[k].cred
                           /\ r.fcm_message_id = extract_fcm_message_id(pl[k].text)


\* C32: while send is between two attempts, the webhook_status of the
\* payload's log row is the outcome of the most recent attempt, 0 for a
\* transport error (stated for a row that is still stored and a send whose
\* store updates all returned Ok).
PerAttemptPersistence ==
    \A k \in PipeIds :
        (/\ pl[k].pc = "send"
         /\ pl[k].outs # <<>>
         /\ \A i \in 1..Len(pl[k].writes) : pl[k].writes[i][2] = "Ok")
        => \A r \in logs :
              r.id = k
              => r.webhook_status =
                    IF pl[k].outs[Len(pl[k].outs)] = TransportError
                    THEN 0 ELSE pl[k].outs[Len(pl[k].outs)]


\* BASE_DELAY_MS * 2^(attempt-1) for the retries 1..3.
BackoffSchedule == <<1000, 2000, 4000>>

\* C33: send sleeps before each retry only: before its n-th POST it has slept
\* n - 1 times, 1 s, 2 s and 4 s in that order, never before the first POST
\* and never after the last; answered 500, 500, 200 it has issued exactly
\* three POSTs with sleeps of 1 s and 2 s, returns, and the log's
\* webhook_status is 200.
WebhookBackoff ==
    \A k \in PipeIds :
        /\ Len(pl[k].outs) <= Len(BackoffSchedule) + 1
        /\ Len(pl[k].sleeps) = IF pl[k].outs = <<>> THEN 0 ELSE Len(pl[k].outs) - 1
        /\ \A i \in 1..Len(pl[k].sleeps) : pl[k].sleeps[i] = BackoffSchedule[i]
        /\ (pl[k].outs = <<500, 500, 200>> /\ pl[k].pc # "update")
           => (/\ pl[k].pc = "returned"
               /\ pl[k].sleeps = <<1000, 2000>>
               /\ pl[k].status = 200)

\* C33 witness: a send answered 500, 500, 200 has returned.
WebhookBackoffWitness ==
    \E k \in PipeIds :
        pl[k].outs = <<500, 500, 200>> /\ pl[k].pc = "returned"


CredentialSnapshot ==
    [][/\ \A t \in TaskIds :
            tasks'[t].credential.webhook_url = tasks[t].credential.webhook_url
       /\ \A k \in 1..Len(pl') :
            pl'[k].url = tasks'[pl'[k].w].credential.webhook_url
       /\ \A p \in Callers :
            (/\ call[p].op = "update"
             /\ call[p].pc \in {"check", "insert"}
             /\ call'[p].pc = "idle")
                => \A t \in 1..Len(tasks') :
                       (tasks'[t].cred = call[p].cred /\ tasks'[t].st # "done")
                           => tasks'[t].credential.webhook_url
                                  = call[p].snap.webhook_url]_vars

\* C36: at any time at most one Worker task per credential id has not yet
\* terminated, whatever start_worker, stop_worker, restart_worker and
\* shutdown_all calls were made.
OneExecutingWorker ==
    \A c \in CredIds :
        Cardinality({t \in TaskIds : tasks[t].cred = c /\ tasks[t].st # "done"}) <= 1

\* C37: a Worker task that terminates on its own leaves its handle in the
\* map; while the finished handle is there is_running is false and
\* active_count does not count it, a start_worker that checks the map returns
\* WorkerAlreadyRunning and spawns nothing, and a stop_worker takes the
\* handle out and returns Ok.
FinishedHandleStays ==
    /\ [](\A c \in CredIds :
            (workers[c] # None /\ tasks[workers[c]].st = "done")
                => /\ ~is_running(c)
                   /\ active_count =
                        Cardinality({d \in CredIds \ {c} :
                            workers[d] # None /\ tasks[workers[d]].st # "done"}))
    /\ [][/\ \A t \in TaskIds :
              (tasks[t].st # "done" /\ tasks'[t].st = "done") => (workers' = workers)
         /\ \A p \in Callers :
              LET c == call[p].cred IN
              /\ (/\ call[p].pc = "check" /\ call'[p].pc # "check"
                  /\ workers[c] # None /\ tasks[workers[c]].st = "done")
                     => /\ call'[p].pc = "idle"
                        /\ call'[p].res = "WorkerAlreadyRunning"
                        /\ workers' = workers /\ tasks' = tasks
              /\ (/\ call[p].op = "stop"
                  /\ call[p].pc = "remove" /\ call'[p].pc # "remove"
                  /\ workers[c] # None /\ tasks[workers[c]].st = "done")
                     => /\ call'[p].pc = "wait"
                        /\ workers'[c] = None
              /\ (/\ call[p].op = "stop"
                  /\ call[p].pc = "wait" /\ call'[p].pc = "idle")
                     => call'[p].res = "Ok"]_vars

\* C37 witness: a start_worker has returned WorkerAlreadyRunning for a
\* credential whose handle is that of a Worker that stopped after its last
\* retry.
FinishedHandleStaysWitness ==
    \E p \in Callers :
        /\ call[p].res = "WorkerAlreadyRunning"
        /\ workers[1] # None
        /\ tasks[workers[1]].st = "done"
        /\ retries_exhausted(tasks[workers[1]].retry_count)
        /\ ~tasks[workers[1]].shutdown

\* C38: whenever no control-plane handler is in progress, the pool holds no
\* handle for a stored credential whose is_active is false or whose
\* is_suspended is true.
NoHandleForStopped ==
    (\A p \in Callers : call[p].pc = "idle")
        => \A c \in CredIds :
               (creds[c].exists /\ workers[c] # None)
                   => (creds[c].is_active /\ ~creds[c].is_suspended)

\* C39: of the DedupCache.is_duplicate calls in progress together on one
\* cache with the same content, at most one has found no unexpired entry
\* and goes on to insert and return false.
ConcurrentIsDuplicateExclusive ==
    \A j, k \in PipeIds :
        (/\ j # k
         /\ pl[j].w = pl[k].w
         /\ pl[j].text = pl[k].text
         /\ pl[j].pc = "is_duplicate_write")
            => pl[k].pc # "is_duplicate_write"

\* C40: a payload task makes no call of create_message_log,
\* cleanup_old_messages or send before the two duplicate checks, and none at
\* all when one of them drops the payload; otherwise it calls
\* create_message_log once, and after an Ok cleanup_old_messages once and
\* then send once, also when cleanup_old_messages returned Err; a task that
\* ended has made none, the first or all three of these calls, in this order.
OnePipelineRun ==
    /\ [](\A k \in PipeIds :
            /\ pl[k].pc \in {"check_fcm", "is_duplicate", "is_duplicate_write",
                              "create_message_log", "dup_fcm", "dup_memory"}
                  => (pl[k].calls = <<>> /\ pl[k].outs = <<>> /\ ~pl[k].inserted)
            /\ pl[k].pc = "insert_failed"
                  => (pl[k].calls = <<"create_message_log">> /\ pl[k].outs = <<>>
                      /\ ~pl[k].inserted)
            /\ pl[k].pc = "cleanup_old_messages"
                  => (pl[k].calls = <<"create_message_log">> /\ pl[k].outs = <<>>
                      /\ pl[k].inserted)
            /\ (pl[k].pc = "send" /\ pl[k].attempt = 0)
                  => (pl[k].calls = <<"create_message_log", "cleanup_old_messages">> /\ pl[k].outs = <<>>)
            /\ (pl[k].pc \in {"update", "exhausted", "returned"}
                    \/ (pl[k].pc = "send" /\ pl[k].attempt > 0))
                  => (/\ pl[k].calls = <<"create_message_log", "cleanup_old_messages", "send">>
                      /\ pl[k].outs # <<>>
                      /\ pl[k].inserted))
    /\ [][\A k \in PipeIds :
            /\ (pl[k].pc = "cleanup_old_messages" /\ pl'[k].pc # pl[k].pc)
                  => pl'[k].pc = "send"
            /\ pl[k].pc \in {"dup_fcm", "dup_memory", "insert_failed", "returned"}
                  => pl'[k] = pl[k]]_vars

\* C40 witness: one payload's send has returned after its
\* cleanup_old_messages failed, and the other payload was dropped by a
\* duplicate check.
OnePipelineRunWitness ==
    \E j, k \in PipeIds :
        /\ pl[j].pc = "returned"
        /\ pl[j].deleted = Null
        /\ pl[j].calls = <<"create_message_log", "cleanup_old_messages", "send">>
        /\ pl[k].pc \in {"dup_fcm", "dup_memory"}
====
